---- MODULE Spec2Model ----
(***************************************************************************)
(* Workflow orchestration of sohambuilds/mlsaworkshop: the four generator  *)
(* workflows under src/workflows (market analysis, academic research,      *)
(* research report, content pipeline).                                     *)
(*                                                                         *)
(* A run is a Python generator.  Each action below is one resumption of a  *)
(* run by its consumer: the code from one yield (or from the creation of   *)
(* the generator) up to the next yield, return or escaping exception.  The *)
(* position pc[r] is named after the source line of the yield at which the *)
(* run is suspended.                                                       *)
(*                                                                         *)
(* A Python str is a sequence of atoms.  Text produced by an executor is a *)
(* sequence of one-character atoms, so slicing and len are exact on it.    *)
(* A literal piece of a template is one atom (every literal a slice is     *)
(* ever applied to is shorter than that slice's bound).  An f-string is    *)
(* the concatenation of its literal pieces and interpolated values.        *)
(* Optional values are <<>> (None / absent) or <<v>>.                      *)
(***************************************************************************)
EXTENDS Integers, Sequences, FiniteSets, TLC

(***************************************************************************)
(* Bounds of the model.                                                    *)
(***************************************************************************)
\* number of runs started in one behaviour
MaxRuns == 2
\* short executor texts have 0..MaxShort characters
MaxShort == 0
\* long executor texts exceed a preview bound by 0..MaxOver characters
MaxOver == 1

\* preview bounds of the fallback records and of the progress events
LiteraturePreview == 300
CitationPreview == 300
KeyFindingsPreview == 500
InsightsPreview == 300
KeyFactsPreview == 400
IntroductionPreview == 300
ContentAnalysisPreview == 300

RunIds == 1..MaxRuns
Subjects == {<<"A">>, <<"B">>}
SeedSubjects == {<<"A">>}
Workflows == {"market", "academic", "research", "content"}

VARIABLES
    session_state,   \* Workflow.session_state of the market workflow
    run_response,    \* risk_analyst.run_response.content (class-level agent)
    started,         \* number of runs started so far
    wf,              \* the class of the workflow object the runs are made on
    subject,         \* subject[r]: company / research_topic / topic
    flags,           \* flags[r]: the use_* keyword arguments of run()
    pc,              \* pc[r]: yield at which run r is suspended
    status,          \* status[r]: how run r ended
    events,          \* events[r]: contents of the RunResponses yielded
    calls,           \* calls[r]: executor invocations, with their prompt
    loc,             \* loc[r]: local variables of run()
    prev             \* outcome of the previous run, when the current run repeats it

vars == <<session_state, run_response, started, wf, subject, flags, pc,
          status, events, calls, loc, prev>>

(***************************************************************************)
(* Python string helpers.                                                  *)
(***************************************************************************)
Min(a, b) == IF a < b THEN a ELSE b

Lit(s) == <<s>>

\* s[:n]
Prefix(s, n) == SubSeq(s, 1, Min(n, Len(s)))

\* s[-n:]
Suffix(s, n) == IF Len(s) > n THEN SubSeq(s, Len(s) - n + 1, Len(s)) ELSE s

Ellipsis == <<".", ".", ".">>

\* the characters executor text is made of
PlainCycle == <<"a", "b", "c">>
LinesCycle == <<" ", "\n", "h", "\n">>

Txt(n, cyc) == SubSeq([i \in 1..n |-> cyc[((i - 1) % Len(cyc)) + 1]], 1, n)

\* executor texts around a preview bound b
TextLens(b) == (0..MaxShort) \cup (b..(b + MaxOver))
PlainTexts(b) == {Txt(n, PlainCycle) : n \in TextLens(b)}
LinesTexts(b) == {Txt(n, LinesCycle) : n \in TextLens(b)}

\* str(None)
NoneStr == <<"N", "o", "n", "e">>

\* t contains s as a contiguous piece
Contains(t, s) ==
    \/ s = <<>>
    \/ \E i \in 0..(Len(t) - Len(s)) :
          /\ t[i + 1] = s[1]
          /\ t[i + Len(s)] = s[Len(s)]
          /\ SubSeq(t, i + 1, i + Len(s)) = s

(***************************************************************************)
(* pydantic record schemas.  A model instance is [cls, f] with f the       *)
(* mapping of its fields; model_dump() is the mapping alone.               *)
(***************************************************************************)
Fields(cls) ==
    CASE cls = "MarketResearch" ->
            <<"company", "industry_analysis", "market_position", "growth_prospects">>
      [] cls = "FinancialMetrics" ->
            <<"stock_performance", "key_ratios", "valuation", "financial_health">>
      [] cls = "LiteratureFindings" ->
            <<"research_topic", "key_papers", "research_gaps", "methodology_trends">>
      [] cls = "FactCheckResults" ->
            <<"verified_claims", "disputed_claims", "confidence_scores", "additional_sources">>
      [] cls = "ResearchFindings" ->
            <<"research_topic", "methodology", "key_findings", "data_sources">>
      [] cls = "DataAnalysis" ->
            <<"statistical_insights", "key_metrics", "trends_patterns", "recommendations">>
      [] cls = "ContentResearch" ->
            <<"topic", "key_facts", "sources", "content_angles">>
      [] cls = "ContentDraft" ->
            <<"headline", "introduction", "main_content", "conclusion">>

FieldSet(cls) == {Fields(cls)[i] : i \in 1..Len(Fields(cls))}

\* fields declared List[str]; all others are str
ListFields == {"key_papers", "verified_claims", "disputed_claims", "additional_sources"}

\* values a typed executor result carries in its fields
TypedTexts == {<<"x">>, <<"y", "\n", "z">>}

TypedRec(cls, t) ==
    [cls |-> cls,
     f |-> [k \in FieldSet(cls) |-> IF k \in ListFields THEN <<t, t>> ELSE t]]

TypedRecs(cls) == {TypedRec(cls, t) : t \in TypedTexts}

\* the typed result of an executor outside the market workflow
ShortTypedRec(cls) == TypedRec(cls, <<"y", "\n", "z">>)

model_dump(rec) == rec.f

\* cls.model_validate(d): <<instance>>, or <<>> when validation raises
model_validate(cls, d) ==
    IF FieldSet(cls) \subseteq DOMAIN d
    THEN <<[cls |-> cls, f |-> [k \in FieldSet(cls) |-> d[k]]]>>
    ELSE <<>>

(***************************************************************************)
(* What one executor call (Agent.run / Team.run) can do.                   *)
(***************************************************************************)
Raise == [kind |-> "raise"]
NoContent == [kind |-> "none"]
TextOut(t) == [kind |-> "text", s |-> t]
TypedOut(rec) == [kind |-> "typed", rec |-> rec]

\* str(response.content) of an outcome that is not an instance of the schema
content_str(out) == IF out.kind = "text" THEN out.s ELSE NoneStr

\* one executor invocation: the agent or team, its input, what it did
Call(agent, prompt, out) == [agent |-> agent, prompt |-> prompt, out |-> out]

\* a preview that stops at the bound and appends nothing
Preview_Bare(s, n) == IF Len(s) > n THEN Prefix(s, n) ELSE s

\* a preview that appends the ellipsis to every text
Preview_Always(s, n) == Prefix(s, n) \o Ellipsis

\* content_str[:n] + "..." if len(content_str) > n else content_str
Preview(s, n) == IF Len(s) > n THEN Prefix(s, n) \o Ellipsis ELSE s

\* isinstance(response.content, cls)
IsInstance(out, cls) == out.kind = "typed" /\ out.rec.cls = cls

\* repr / JSON escaping of a str value: a newline becomes the two
\* characters backslash-n (kept as one atom; escaped text is only ever
\* interpolated into prompts, never sliced)
Escaped(t) == [i \in 1..Len(t) |-> IF t[i] = "\n" THEN "\\n" ELSE t[i]]

\* repr(str)
StrRepr(t) == <<"'">> \o Escaped(t) \o <<"'">>

\* repr(list of str)
RECURSIVE ListItems(_, _)
ListItems(l, i) ==
    IF i > Len(l) THEN <<>>
    ELSE StrRepr(l[i]) \o (IF i < Len(l) THEN <<",", " ">> ELSE <<>>)
         \o ListItems(l, i + 1)

ListRepr(l) == <<"[">> \o ListItems(l, 1) \o <<"]">>

\* str(model instance): field=repr(value), separated by blanks
RECURSIVE ModelItems(_, _)
ModelItems(rec, i) ==
    IF i > Len(Fields(rec.cls)) THEN <<>>
    ELSE LET k == Fields(rec.cls)[i]
         IN  <<k, "=">>
             \o (IF k \in ListFields THEN ListRepr(rec.f[k]) ELSE StrRepr(rec.f[k]))
             \o (IF i < Len(Fields(rec.cls)) THEN <<" ">> ELSE <<>>)
             \o ModelItems(rec, i + 1)

ModelStr(rec) == ModelItems(rec, 1)

\* json.dumps(d, indent=2) of a model_dump of class cls
RECURSIVE JsonItems(_, _, _)
JsonItems(cls, d, i) ==
    IF i > Len(Fields(cls)) THEN <<>>
    ELSE <<"\n", " ", " ", "\"", Fields(cls)[i], "\"", ":", " ", "\"">>
         \o Escaped(d[Fields(cls)[i]]) \o <<"\"">>
         \o (IF i < Len(Fields(cls)) THEN <<",">> ELSE <<>>)
         \o JsonItems(cls, d, i + 1)

json_dumps(cls, d) == <<"{">> \o JsonItems(cls, d, 1) \o <<"\n", "}">>

(***************************************************************************)
(* Market analysis workflow: src/workflows/market_analysis_workflow.py     *)
(***************************************************************************)
MarketTexts == {Txt(n, PlainCycle) : n \in 1..(MaxShort + 1)}
RiskTexts == {<<"r", "1">>, <<"r", "2">>}

ResearcherOutcomes ==
    {Raise, NoContent} \cup {TextOut(t) : t \in MarketTexts}
        \cup {TypedOut(rec) : rec \in TypedRecs("MarketResearch")}

FinanceOutcomes ==
    {Raise, NoContent} \cup {TextOut(t) : t \in MarketTexts}
        \cup {TypedOut(rec) : rec \in TypedRecs("FinancialMetrics")}

RiskOutcomes == {Raise} \cup {TextOut(t) : t \in RiskTexts}

MarketFlags ==
    [use_search_cache : BOOLEAN, use_financial_cache : BOOLEAN,
     use_cached_report : BOOLEAN]

\* run(company) with the per-step cache flags left at their defaults
DefaultStepFlags ==
    {fl \in MarketFlags : fl.use_search_cache /\ fl.use_financial_cache}

EmptyNamespace == [c \in Subjects |-> <<>>]

\* a lookup that never finds an entry
get_cached_analysis_Miss(ss, company) == <<>>

\* self.session_state.get("complete_analyses", {}).get(company)
get_cached_analysis(ss, company) == ss.complete_analyses[company]

\* a put that stores nothing
cache_analysis_Dropped(ss, company, analysis) == ss

\* a put that stores the report under every company
cache_analysis_AllKeys(ss, company, analysis) ==
    [ss EXCEPT !.complete_analyses = [c \in Subjects |-> <<analysis>>]]

\* self.session_state["complete_analyses"][company] = analysis
cache_analysis(ss, company, analysis) ==
    [ss EXCEPT !.complete_analyses[company] = <<analysis>>]

research_prompt(company) ==
    Lit("Conduct comprehensive market research for ") \o company
        \o Lit(": 1. Company Analysis 2. Industry Analysis 3. Market Position 4. Growth Prospects")

financial_prompt(company) ==
    Lit("Perform comprehensive financial analysis for ") \o company
        \o Lit(": 1. Stock Performance 2. Key Ratios 3. Valuation 4. Financial Health")

\* truthiness of response.content for an outcome that did not raise
Truthy(out) ==
    \/ out.kind = "typed"
    \/ out.kind = "text" /\ out.s # <<>>

\* a step that never looks in its namespace
GetStep_NoRead(ss, ns, cls, agent, prompt, company, use_cache, out) ==
    IF out.kind # "raise" /\ Truthy(out) /\ out.kind = "typed"
       /\ out.rec.cls = cls
    THEN [ret |-> <<out.rec>>,
          ss |-> [ss EXCEPT ![ns][company] = <<model_dump(out.rec)>>],
          invoked |-> <<Call(agent, prompt, out)>>]
    ELSE [ret |-> <<>>, ss |-> ss, invoked |-> <<Call(agent, prompt, out)>>]

\* a step that writes its namespace only when its cache flag is set
GetStep_WriteIfFlag(ss, ns, cls, agent, prompt, company, use_cache, out) ==
    LET cached == ss[ns][company]
        hit == IF use_cache /\ cached # <<>>
               THEN model_validate(cls, cached[1])
               ELSE <<>>
    IN  IF hit # <<>>
        THEN [ret |-> hit, ss |-> ss, invoked |-> <<>>]
        ELSE IF out.kind # "raise" /\ Truthy(out) /\ out.kind = "typed"
                  /\ out.rec.cls = cls
        THEN [ret |-> <<out.rec>>,
              ss |-> IF use_cache
                     THEN [ss EXCEPT ![ns][company] = <<model_dump(out.rec)>>]
                     ELSE ss,
              invoked |-> <<Call(agent, prompt, out)>>]
        ELSE [ret |-> <<>>, ss |-> ss, invoked |-> <<Call(agent, prompt, out)>>]

\* a step for which a cached entry that does not validate is a failure of
\* the step
GetStep_InvalidIsFailure(ss, ns, cls, agent, prompt, company, use_cache, out) ==
    LET cached == ss[ns][company]
        hit == IF use_cache /\ cached # <<>>
               THEN model_validate(cls, cached[1])
               ELSE <<>>
    IN  IF hit # <<>>
        THEN [ret |-> hit, ss |-> ss, invoked |-> <<>>]
        ELSE IF use_cache /\ cached # <<>>
        THEN [ret |-> <<>>, ss |-> ss, invoked |-> <<>>]
        ELSE IF out.kind # "raise" /\ Truthy(out) /\ out.kind = "typed"
                  /\ out.rec.cls = cls
        THEN [ret |-> <<out.rec>>,
              ss |-> [ss EXCEPT ![ns][company] = <<model_dump(out.rec)>>],
              invoked |-> <<Call(agent, prompt, out)>>]
        ELSE [ret |-> <<>>, ss |-> ss, invoked |-> <<Call(agent, prompt, out)>>]

\* The body shared by get_market_research and get_financial_analysis:
\* ret is the Optional record returned, ss the session state afterwards,
\* invoked the executor calls made.
GetStep(ss, ns, cls, agent, prompt, company, use_cache, out) ==
    LET cached == ss[ns][company]
        hit == IF use_cache /\ cached # <<>>
               THEN model_validate(cls, cached[1])
               ELSE <<>>
    IN  IF hit # <<>>
        THEN [ret |-> hit, ss |-> ss, invoked |-> <<>>]
        ELSE IF out.kind # "raise" /\ Truthy(out) /\ out.kind = "typed"
                  /\ out.rec.cls = cls
        THEN [ret |-> <<out.rec>>,
              ss |-> [ss EXCEPT ![ns][company] = <<model_dump(out.rec)>>],
              invoked |-> <<Call(agent, prompt, out)>>]
        ELSE [ret |-> <<>>, ss |-> ss, invoked |-> <<Call(agent, prompt, out)>>]

\* step 1 looking in its namespace whatever its cache flag says
get_market_research_AlwaysRead(ss, company, use_cache, out) ==
    GetStep(ss, "market_research", "MarketResearch", "researcher",
            research_prompt(company), company, TRUE, out)

get_market_research(ss, company, use_cache, out) ==
    GetStep(ss, "market_research", "MarketResearch", "researcher",
            research_prompt(company), company, use_cache, out)

get_financial_analysis(ss, company, use_cache, out) ==
    GetStep(ss, "financial_analysis", "FinancialMetrics", "finance_analyst",
            financial_prompt(company), company, use_cache, out)

\* the FinancialMetrics built when get_financial_analysis returns None
PlaceholderFinancialMetrics ==
    [cls |-> "FinancialMetrics",
     f |-> [stock_performance |-> Lit("Limited data available - requires manual analysis"),
            key_ratios |-> Lit("Unable to retrieve comprehensive metrics"),
            valuation |-> Lit("Qualitative assessment needed"),
            financial_health |-> Lit("Assessment incomplete - manual review required")]]

risk_prompt(company, market_research, financial_metrics) ==
    Lit("Based on the comprehensive research below, provide a detailed investment analysis and recommendations for ")
        \o company \o Lit(": **Market Research:** ")
        \o json_dumps("MarketResearch", model_dump(market_research))
        \o Lit(" **Financial Analysis:** ")
        \o json_dumps("FinancialMetrics", model_dump(financial_metrics))
        \o Lit(" **Required Analysis:** 1..5 Provide actionable investment guidance with clear reasoning.")

compile_final_report(company, market_research, financial_metrics, risk_assessment) ==
    Lit("# Comprehensive Investment Analysis: ") \o company
        \o Lit(" ## Executive Summary ... ## Market Research & Intelligence **Company**: ")
        \o market_research.f.company
        \o Lit(" **Industry Analysis**: ") \o market_research.f.industry_analysis
        \o Lit(" **Market Position**: ") \o market_research.f.market_position
        \o Lit(" **Growth Prospects**: ") \o market_research.f.growth_prospects
        \o Lit(" ## Financial Analysis & Valuation **Stock Performance**: ")
        \o financial_metrics.f.stock_performance
        \o Lit(" **Key Financial Ratios**: ") \o financial_metrics.f.key_ratios
        \o Lit(" **Valuation Assessment**: ") \o financial_metrics.f.valuation
        \o Lit(" **Financial Health**: ") \o financial_metrics.f.financial_health
        \o Lit(" ## Risk Assessment & Investment Recommendations ") \o risk_assessment
        \o Lit(" ## Analysis Methodology ... *Analysis completed for ") \o company
        \o Lit(" using coordinated AI agents*")

MarketStartedEvent(company) ==
    Lit("**Starting Market Analysis for ") \o company \o Lit("**")
MarketFailedEvent(company) ==
    Lit("Could not complete market research for ") \o company
        \o Lit(". Analysis terminated.")
MarketResearchCompleteEvent(mr) ==
    Lit("### Market Research Complete - **Company**: ") \o mr.f.company
        \o Lit(" - **Industry Analysis**: ") \o Prefix(mr.f.industry_analysis, 150)
        \o Lit("... - **Market Position**: ") \o Prefix(mr.f.market_position, 150)
        \o Lit("... - **Growth Prospects**: ") \o Prefix(mr.f.growth_prospects, 150)
        \o Lit("...")
MarketLimitedEvent ==
    Lit("Limited financial data available. Proceeding with qualitative analysis.")
MarketFinancialCompleteEvent(fm) ==
    Lit("### Financial Analysis Complete - **Stock Performance**: ")
        \o Prefix(fm.f.stock_performance, 150)
        \o Lit("... - **Key Ratios**: ") \o Prefix(fm.f.key_ratios, 150)
        \o Lit("... - **Valuation**: ") \o Prefix(fm.f.valuation, 150)
        \o Lit("... - **Financial Health**: ") \o Prefix(fm.f.financial_health, 150)
        \o Lit("...")
MarketCompleteEvent == Lit("## Analysis Complete - Full Report Generated")

MarketLocals ==
    [market_research |-> <<>>, financial_metrics |-> <<>>,
     risk_prompt |-> <<>>, final_report |-> <<>>]

\* run r is a suspended generator of workflow w at the yield of line p
At(r, w, p) == wf = w /\ pc[r] = p /\ status[r] = "running"

Yield(r, p, content) ==
    /\ pc' = [pc EXCEPT ![r] = p]
    /\ events' = [events EXCEPT ![r] = Append(@, content)]

\* the generator body returns: StopIteration for the consumer
Return(r, how) ==
    /\ pc' = [pc EXCEPT ![r] = "end"]
    /\ status' = [status EXCEPT ![r] = how]
    /\ UNCHANGED events

\* an exception leaves the generator
Escape(r) == Return(r, "raised")

\* lines 167-177: the cached-report short-circuit, else the first banner
Market_Begin(r) ==
    /\ At(r, "market", "new")
    /\ LET cached_analysis ==
               IF flags[r].use_cached_report
               THEN get_cached_analysis(session_state, subject[r])
               ELSE <<>>
       IN  IF cached_analysis # <<>> /\ cached_analysis[1] # <<>>
           THEN Yield(r, "L173", cached_analysis[1])
           ELSE Yield(r, "L177", MarketStartedEvent(subject[r]))
    /\ UNCHANGED <<session_state, run_response, started, wf, subject, flags,
                   status, calls, loc, prev>>

\* line 174: return after the cached report
Market_ReturnCached(r) ==
    /\ At(r, "market", "L173")
    /\ Return(r, "cached")
    /\ UNCHANGED <<session_state, run_response, started, wf, subject, flags,
                   calls, loc, prev>>

\* line 178
Market_Phase1(r) ==
    /\ At(r, "market", "L177")
    /\ Yield(r, "L178", Lit("## Phase 1: Market Research & Competitive Analysis"))
    /\ UNCHANGED <<session_state, run_response, started, wf, subject, flags,
                   status, calls, loc, prev>>

\* lines 180-191: step 1, required
Market_Research(r) ==
    /\ At(r, "market", "L178")
    /\ \E out \in ResearcherOutcomes :
         LET res == get_market_research(session_state, subject[r],
                                        flags[r].use_search_cache, out)
         IN  /\ session_state' = res.ss
             /\ calls' = [calls EXCEPT ![r] = @ \o res.invoked]
             /\ loc' = [loc EXCEPT ![r].market_research = res.ret]
             /\ IF res.ret = <<>>
                THEN Yield(r, "L182", MarketFailedEvent(subject[r]))
                ELSE Yield(r, "L185", MarketResearchCompleteEvent(res.ret[1]))
    /\ UNCHANGED <<run_response, started, wf, subject, flags, status, prev>>

\* a run that goes on to phase 2 after the termination message
Market_ReturnFailed_Continue(r) ==
    /\ At(r, "market", "L182")
    /\ Yield(r, "L194", Lit("## Phase 2: Financial Analysis & Valuation"))
    /\ UNCHANGED <<session_state, run_response, started, wf, subject, flags,
                   status, calls, loc, prev>>

\* line 183: return after the termination message
Market_ReturnFailed(r) ==
    /\ At(r, "market", "L182")
    /\ Return(r, "failed")
    /\ UNCHANGED <<session_state, run_response, started, wf, subject, flags,
                   calls, loc, prev>>

\* line 194
Market_Phase2(r) ==
    /\ At(r, "market", "L185")
    /\ Yield(r, "L194", Lit("## Phase 2: Financial Analysis & Valuation"))
    /\ UNCHANGED <<session_state, run_response, started, wf, subject, flags,
                   status, calls, loc, prev>>

\* lines 196-198 and 206: step 2, not required
Market_Financial(r) ==
    /\ At(r, "market", "L194")
    /\ \E out \in FinanceOutcomes :
         LET res == get_financial_analysis(session_state, subject[r],
                                           flags[r].use_financial_cache, out)
         IN  /\ session_state' = res.ss
             /\ calls' = [calls EXCEPT ![r] = @ \o res.invoked]
             /\ loc' = [loc EXCEPT ![r].financial_metrics = res.ret]
             /\ IF res.ret = <<>>
                THEN Yield(r, "L198", MarketLimitedEvent)
                ELSE Yield(r, "L206", MarketFinancialCompleteEvent(res.ret[1]))
    /\ UNCHANGED <<run_response, started, wf, subject, flags, status, prev>>

\* a run that gives up when step 2 returned no record
Market_Placeholder_Abort(r) ==
    /\ At(r, "market", "L198")
    /\ Return(r, "failed")
    /\ UNCHANGED <<session_state, run_response, started, wf, subject, flags,
                   calls, loc, prev>>

\* a degraded step 2 that starts the run over from step 1
Market_Placeholder_Retry(r) ==
    /\ At(r, "market", "L198")
    /\ loc' = [loc EXCEPT ![r].financial_metrics = <<PlaceholderFinancialMetrics>>]
    /\ Yield(r, "L178", MarketFinancialCompleteEvent(PlaceholderFinancialMetrics))
    /\ UNCHANGED <<session_state, run_response, started, wf, subject, flags,
                   status, calls, prev>>

\* a degraded step 2 that caches its placeholder record
Market_Placeholder_Cached(r) ==
    /\ At(r, "market", "L198")
    /\ loc' = [loc EXCEPT ![r].financial_metrics = <<PlaceholderFinancialMetrics>>]
    /\ session_state' = [session_state EXCEPT !.financial_analysis[subject[r]] =
                            <<model_dump(PlaceholderFinancialMetrics)>>]
    /\ Yield(r, "L206", MarketFinancialCompleteEvent(PlaceholderFinancialMetrics))
    /\ UNCHANGED <<run_response, started, wf, subject, flags, status, calls, prev>>

\* lines 199-212: the placeholder record of a degraded step 2
Market_Placeholder(r) ==
    /\ At(r, "market", "L198")
    /\ loc' = [loc EXCEPT ![r].financial_metrics = <<PlaceholderFinancialMetrics>>]
    /\ Yield(r, "L206", MarketFinancialCompleteEvent(PlaceholderFinancialMetrics))
    /\ UNCHANGED <<session_state, run_response, started, wf, subject, flags,
                   status, calls, prev>>

\* a run that goes back to step 2 after step 2
Market_Phase3_Again(r) ==
    /\ At(r, "market", "L206")
    /\ Yield(r, "L194", Lit("## Phase 2: Financial Analysis & Valuation"))
    /\ UNCHANGED <<session_state, run_response, started, wf, subject, flags,
                   status, calls, loc, prev>>

\* line 215
Market_Phase3(r) ==
    /\ At(r, "market", "L206")
    /\ Yield(r, "L215", Lit("## Phase 3: Risk Assessment & Investment Recommendations"))
    /\ UNCHANGED <<session_state, run_response, started, wf, subject, flags,
                   status, calls, loc, prev>>

\* lines 218-244: step 3; the streamed response of the class-level
\* risk_analyst is re-yielded, the agent keeps it in run_response
Market_Risk(r) ==
    /\ At(r, "market", "L215")
    /\ LET prompt == risk_prompt(subject[r], loc[r].market_research[1],
                                 loc[r].financial_metrics[1])
       IN  /\ loc' = [loc EXCEPT ![r].risk_prompt = <<prompt>>]
           /\ \E out \in RiskOutcomes :
                /\ calls' = [calls EXCEPT ![r] =
                                Append(@, Call("risk_analyst", prompt, out))]
                /\ IF out.kind = "raise"
                   THEN /\ Escape(r)
                        /\ UNCHANGED run_response
                   ELSE /\ run_response' = <<out.s>>
                        /\ Yield(r, "L244", out.s)
                        /\ UNCHANGED status
    /\ UNCHANGED <<session_state, started, wf, subject, flags, prev>>

\* a compilation that takes the financial record from the cache when the
\* cache holds one
Market_Compile_FromCache(r) ==
    /\ At(r, "market", "L244")
    /\ LET cached == session_state.financial_analysis[subject[r]]
           financial_metrics ==
               IF cached # <<>>
               THEN [cls |-> "FinancialMetrics", f |-> cached[1]]
               ELSE loc[r].financial_metrics[1]
           final_report ==
               compile_final_report(subject[r], loc[r].market_research[1],
                                    financial_metrics, run_response[1])
       IN  /\ loc' = [loc EXCEPT ![r].final_report = <<final_report>>]
           /\ session_state' = cache_analysis(session_state, subject[r], final_report)
    /\ Yield(r, "L253", MarketCompleteEvent)
    /\ UNCHANGED <<run_response, started, wf, subject, flags, status, calls, prev>>

\* lines 247-255: compile from risk_analyst.run_response.content, cache,
\* and yield the completion notice
Market_Compile(r) ==
    /\ At(r, "market", "L244")
    /\ LET final_report ==
               compile_final_report(subject[r], loc[r].market_research[1],
                                    loc[r].financial_metrics[1], run_response[1])
       IN  /\ loc' = [loc EXCEPT ![r].final_report = <<final_report>>]
           /\ session_state' = cache_analysis(session_state, subject[r], final_report)
    /\ Yield(r, "L253", MarketCompleteEvent)
    /\ UNCHANGED <<run_response, started, wf, subject, flags, status, calls, prev>>

\* end of run() after line 253
Market_Return(r) ==
    /\ At(r, "market", "L253")
    /\ Return(r, "done")
    /\ UNCHANGED <<session_state, run_response, started, wf, subject, flags,
                   calls, loc, prev>>

MarketNext(r) ==
    \/ Market_Begin(r)
    \/ Market_ReturnCached(r)
    \/ Market_Phase1(r)
    \/ Market_Research(r)
    \/ Market_ReturnFailed(r)
    \/ Market_Phase2(r)
    \/ Market_Financial(r)
    \/ Market_Placeholder(r)
    \/ Market_Phase3(r)
    \/ Market_Risk(r)
    \/ Market_Compile(r)
    \/ Market_Return(r)

(***************************************************************************)
(* Academic research workflow: src/workflows/academic_research_workflow.py *)
(***************************************************************************)
LiteratureOutcomes ==
    {Raise} \cup {TextOut(t) : t \in PlainTexts(LiteraturePreview)}
        \cup {TypedOut(ShortTypedRec("LiteratureFindings"))}

VerificationOutcomes ==
    {Raise, TextOut(Txt(1, PlainCycle)),
     TypedOut(ShortTypedRec("FactCheckResults"))}

CitationOutcomes == {Raise, NoContent, TextOut(Txt(CitationPreview + 1, PlainCycle))}

ReportOutcomes == {Raise, NoContent, TextOut(Txt(1, PlainCycle))}

CacheFlags == [use_cache : BOOLEAN]

\* a step 1 that overwrites the topic of a typed result with the run's
\* subject
LiteratureFindingsOf_Retopic(research_topic, out) ==
    IF IsInstance(out, "LiteratureFindings")
    THEN [out.rec EXCEPT !.f.research_topic = research_topic]
    ELSE [cls |-> "LiteratureFindings",
          f |-> [research_topic |-> research_topic,
                 key_papers |-> <<Lit("Multiple academic papers identified from literature search")>>,
                 research_gaps |-> Preview(content_str(out), LiteraturePreview),
                 methodology_trends |-> Lit("Various methodological approaches identified")]]

\* lines 171-181
LiteratureFindingsOf(research_topic, out) ==
    IF IsInstance(out, "LiteratureFindings")
    THEN out.rec
    ELSE [cls |-> "LiteratureFindings",
          f |-> [research_topic |-> research_topic,
                 key_papers |-> <<Lit("Multiple academic papers identified from literature search")>>,
                 research_gaps |-> Preview(content_str(out), LiteraturePreview),
                 methodology_trends |-> Lit("Various methodological approaches identified")]]

\* lines 206-215
FactCheckResultsOf(out) ==
    IF IsInstance(out, "FactCheckResults")
    THEN out.rec
    ELSE [cls |-> "FactCheckResults",
          f |-> [verified_claims |-> <<Lit("Multiple claims verified through team analysis")>>,
                 disputed_claims |-> <<Lit("Some claims require additional verification")>>,
                 confidence_scores |-> Lit("High confidence in core findings"),
                 additional_sources |-> <<Lit("Additional authoritative sources identified")>>]]

literature_prompt(research_topic) ==
    Lit("Conduct a comprehensive academic literature review on: RESEARCH TOPIC: ")
        \o research_topic
        \o Lit(" SEARCH REQUIREMENTS ... Structure your findings according to the LiteratureFindings model.")

_prepare_verification_input(literature_findings) ==
    Lit("FACT-CHECKING ASSIGNMENT FOR RESEARCH VERIFICATION TEAM LITERATURE FINDINGS TO VERIFY: Topic: ")
        \o literature_findings.f.research_topic
        \o Lit(" Key Papers: ") \o ListRepr(literature_findings.f.key_papers)
        \o Lit(" Research Gaps: ") \o literature_findings.f.research_gaps
        \o Lit(" Methodology Trends: ") \o literature_findings.f.methodology_trends
        \o Lit(" VERIFICATION TASKS ... Provide detailed verification results with confidence assessments.")

_prepare_citation_analysis(literature, verification) ==
    Lit("CITATION IMPACT ANALYSIS REQUEST RESEARCH CONTEXT: Topic: ")
        \o literature.f.research_topic
        \o Lit(" Verified Claims: ") \o ListRepr(verification.f.verified_claims)
        \o Lit(" Confidence Level: ") \o verification.f.confidence_scores
        \o Lit(" ANALYSIS REQUIREMENTS ... Provide recommendations for the strongest research foundation.")

_prepare_final_report(topic, literature, verification, citation) ==
    Lit("COMPREHENSIVE ACADEMIC RESEARCH VALIDATION REPORT RESEARCH TOPIC: ") \o topic
        \o Lit(" WORKFLOW RESULTS SUMMARY: Literature Analysis: ") \o literature.f.research_gaps
        \o Lit(" Verification Results: ") \o verification.f.confidence_scores
        \o Lit(" Citation Analysis: ") \o Prefix(citation, 200)
        \o Lit("... REPORT REQUIREMENTS ... FORMAT: Professional academic research validation report")

_compile_comprehensive_report(topic, literature, verification, citation, final_report) ==
    Lit("# Academic Research Validation Complete: ") \o topic
        \o Lit(" ## Workflow Execution Summary 1. **Literature Search** -> ")
        \o Lit(ToString(Len(literature.f.key_papers)))
        \o Lit(" academic papers identified ... 3. **Team Fact-Checking** -> ")
        \o Lit(ToString(Len(verification.f.verified_claims)))
        \o Lit(" claims verified ... ## Research Validation Results - Research Topic: ")
        \o literature.f.research_topic
        \o Lit(" - Key Papers: ") \o Lit(ToString(Len(literature.f.key_papers)))
        \o Lit(" academic sources - Research Gaps: ") \o Prefix(literature.f.research_gaps, 150)
        \o Lit("... - Verified Claims: ") \o Lit(ToString(Len(verification.f.verified_claims)))
        \o Lit(" - Confidence Level: ") \o verification.f.confidence_scores
        \o Lit(" - Additional Sources: ") \o Lit(ToString(Len(verification.f.additional_sources)))
        \o Lit(" identified **Final Assessment:** ") \o final_report
        \o Lit(" ## Workflow Advantages Demonstrated ... *Academic research validation completed using AGNO Advanced Workflow Orchestration*")

AcademicStartedEvent(research_topic) ==
    Lit("**Academic Research Validation Workflow Started** Topic: **") \o research_topic
        \o Lit("** This workflow demonstrates advanced step-by-step orchestration ...")
AcademicLiteratureCompleteEvent(lf) ==
    Lit("**Literature Search Complete** **Topic:** ") \o lf.f.research_topic
        \o Lit(" **Key Papers Found:** ") \o Lit(ToString(Len(lf.f.key_papers)))
        \o Lit(" papers **Research Gaps:** ") \o Prefix(lf.f.research_gaps, 200) \o Lit("...")
AcademicFactCheckCompleteEvent(fc) ==
    Lit("**Fact-Checking Complete** **Verified Claims:** ")
        \o Lit(ToString(Len(fc.f.verified_claims)))
        \o Lit(" **Disputed Claims:** ") \o Lit(ToString(Len(fc.f.disputed_claims)))
        \o Lit(" **Confidence:** ") \o fc.f.confidence_scores
AcademicCitationCompleteEvent(citation) ==
    Lit("**Citation Analysis Complete** ") \o Prefix(citation, CitationPreview) \o Lit("...")

AcademicLocals ==
    [literature_findings |-> <<>>, verification_prompt |-> <<>>,
     fact_check_results |-> <<>>, citation_analysis |-> <<>>,
     complete_report |-> <<>>]

\* lines 133-137
Academic_Begin(r) ==
    /\ At(r, "academic", "new")
    /\ Yield(r, "L135", AcademicStartedEvent(subject[r]))
    /\ UNCHANGED <<session_state, run_response, started, wf, subject, flags,
                   status, calls, loc, prev>>

\* line 142
Academic_Step1(r) ==
    /\ At(r, "academic", "L135")
    /\ Yield(r, "L142", Lit("## Step 1: Literature Search & Analysis"))
    /\ UNCHANGED <<session_state, run_response, started, wf, subject, flags,
                   status, calls, loc, prev>>

\* lines 144-185: step 1, literature_specialist
Academic_Literature(r) ==
    /\ At(r, "academic", "L142")
    /\ \E out \in LiteratureOutcomes :
         /\ calls' = [calls EXCEPT ![r] =
                         Append(@, Call("literature_specialist", literature_prompt(subject[r]), out))]
         /\ IF out.kind = "raise"
            THEN Escape(r) /\ UNCHANGED loc
            ELSE LET literature_findings == LiteratureFindingsOf(subject[r], out)
                 IN  /\ loc' = [loc EXCEPT ![r].literature_findings = <<literature_findings>>]
                     /\ Yield(r, "L183", AcademicLiteratureCompleteEvent(literature_findings))
                     /\ UNCHANGED status
    /\ UNCHANGED <<session_state, run_response, started, wf, subject, flags, prev>>

\* line 188
Academic_Step2(r) ==
    /\ At(r, "academic", "L183")
    /\ Yield(r, "L188", Lit("## Step 2: Processing Literature for Verification"))
    /\ UNCHANGED <<session_state, run_response, started, wf, subject, flags,
                   status, calls, loc, prev>>

\* a function step that asks the literature_specialist to reshape its
\* findings
Academic_Prepare_ByModel(r) ==
    /\ At(r, "academic", "L188")
    /\ \E out \in {TextOut(Txt(1, PlainCycle))} :
         /\ calls' = [calls EXCEPT ![r] =
                         Append(@, Call("literature_specialist",
                                        _prepare_verification_input(loc[r].literature_findings[1]),
                                        out))]
         /\ loc' = [loc EXCEPT ![r].verification_prompt = <<out.s>>]
    /\ Yield(r, "L193", Lit("**Data Processing Complete** - Literature findings prepared for fact-checking team"))
    /\ UNCHANGED <<session_state, run_response, started, wf, subject, flags,
                   status, prev>>

\* lines 191-193: the function step
Academic_Prepare(r) ==
    /\ At(r, "academic", "L188")
    /\ loc' = [loc EXCEPT ![r].verification_prompt =
                  <<_prepare_verification_input(loc[r].literature_findings[1])>>]
    /\ Yield(r, "L193", Lit("**Data Processing Complete** - Literature findings prepared for fact-checking team"))
    /\ UNCHANGED <<session_state, run_response, started, wf, subject, flags,
                   status, calls, prev>>

\* line 198
Academic_Step3(r) ==
    /\ At(r, "academic", "L193")
    /\ Yield(r, "L198", Lit("## Step 3: Fact-Checking & Verification"))
    /\ UNCHANGED <<session_state, run_response, started, wf, subject, flags,
                   status, calls, loc, prev>>

\* lines 200-219: step 3, verification_team
Academic_Verification(r) ==
    /\ At(r, "academic", "L198")
    /\ \E out \in VerificationOutcomes :
         /\ calls' = [calls EXCEPT ![r] =
                         Append(@, Call("verification_team", loc[r].verification_prompt[1], out))]
         /\ IF out.kind = "raise"
            THEN Escape(r) /\ UNCHANGED loc
            ELSE LET fact_check_results == FactCheckResultsOf(out)
                 IN  /\ loc' = [loc EXCEPT ![r].fact_check_results = <<fact_check_results>>]
                     /\ Yield(r, "L217", AcademicFactCheckCompleteEvent(fact_check_results))
                     /\ UNCHANGED status
    /\ UNCHANGED <<session_state, run_response, started, wf, subject, flags, prev>>

\* line 224
Academic_Step4(r) ==
    /\ At(r, "academic", "L217")
    /\ Yield(r, "L224", Lit("## Step 4: Citation Impact Analysis"))
    /\ UNCHANGED <<session_state, run_response, started, wf, subject, flags,
                   status, calls, loc, prev>>

\* lines 226-235: step 4, citation_analyst
Academic_Citation(r) ==
    /\ At(r, "academic", "L224")
    /\ \E out \in CitationOutcomes :
         /\ calls' = [calls EXCEPT ![r] =
                         Append(@, Call("citation_analyst",
                                        _prepare_citation_analysis(loc[r].literature_findings[1],
                                                                   loc[r].fact_check_results[1]), out))]
         /\ IF out.kind = "raise"
            THEN Escape(r) /\ UNCHANGED loc
            ELSE /\ loc' = [loc EXCEPT ![r].citation_analysis = <<content_str(out)>>]
                 /\ Yield(r, "L233", AcademicCitationCompleteEvent(content_str(out)))
                 /\ UNCHANGED status
    /\ UNCHANGED <<session_state, run_response, started, wf, subject, flags, prev>>

\* line 240
Academic_Step5(r) ==
    /\ At(r, "academic", "L233")
    /\ Yield(r, "L240", Lit("## Step 5: Comprehensive Report Generation"))
    /\ UNCHANGED <<session_state, run_response, started, wf, subject, flags,
                   status, calls, loc, prev>>

\* lines 242-258: step 5, report_generator, and the compiled report
Academic_Report(r) ==
    /\ At(r, "academic", "L240")
    /\ \E out \in ReportOutcomes :
         /\ calls' = [calls EXCEPT ![r] =
                         Append(@, Call("report_generator",
                                        _prepare_final_report(subject[r],
                                                              loc[r].literature_findings[1],
                                                              loc[r].fact_check_results[1],
                                                              loc[r].citation_analysis[1]), out))]
         /\ IF out.kind = "raise"
            THEN Escape(r) /\ UNCHANGED loc
            ELSE LET complete_report ==
                         _compile_comprehensive_report(subject[r],
                                                       loc[r].literature_findings[1],
                                                       loc[r].fact_check_results[1],
                                                       loc[r].citation_analysis[1],
                                                       content_str(out))
                 IN  /\ loc' = [loc EXCEPT ![r].complete_report = <<complete_report>>]
                     /\ Yield(r, "L258", complete_report)
                     /\ UNCHANGED status
    /\ UNCHANGED <<session_state, run_response, started, wf, subject, flags, prev>>

\* line 260: end of run()
Academic_Return(r) ==
    /\ At(r, "academic", "L258")
    /\ Return(r, "done")
    /\ UNCHANGED <<session_state, run_response, started, wf, subject, flags,
                   calls, loc, prev>>

AcademicNext(r) ==
    \/ Academic_Begin(r)
    \/ Academic_Step1(r)
    \/ Academic_Literature(r)
    \/ Academic_Step2(r)
    \/ Academic_Prepare(r)
    \/ Academic_Step3(r)
    \/ Academic_Verification(r)
    \/ Academic_Step4(r)
    \/ Academic_Citation(r)
    \/ Academic_Step5(r)
    \/ Academic_Report(r)
    \/ Academic_Return(r)

(***************************************************************************)
(* Research report workflow: src/workflows/research_report_workflow.py     *)
(***************************************************************************)
FindingsOutcomes ==
    {Raise} \cup {TextOut(t) : t \in PlainTexts(KeyFindingsPreview)}
        \cup {TypedOut(ShortTypedRec("ResearchFindings"))}

AnalysisOutcomes ==
    {Raise} \cup {TextOut(t) : t \in PlainTexts(InsightsPreview)}
        \cup {TypedOut(ShortTypedRec("DataAnalysis"))}

WriterOutcomes == {Raise, NoContent, TextOut(Txt(1, PlainCycle))}

\* lines 183-193
ResearchFindingsOf(research_topic, out) ==
    IF IsInstance(out, "ResearchFindings")
    THEN out.rec
    ELSE [cls |-> "ResearchFindings",
          f |-> [research_topic |-> research_topic,
                 methodology |-> Lit("Comprehensive research using multiple sources and analysis"),
                 key_findings |-> Preview(content_str(out), KeyFindingsPreview),
                 data_sources |-> Lit("Multiple online sources and databases")]]

\* lines 221-231
DataAnalysisOf(out) ==
    IF IsInstance(out, "DataAnalysis")
    THEN out.rec
    ELSE [cls |-> "DataAnalysis",
          f |-> [statistical_insights |-> Preview(content_str(out), InsightsPreview),
                 key_metrics |-> Lit("Key metrics derived from research data"),
                 trends_patterns |-> Lit("Identified patterns and trends from analysis"),
                 recommendations |-> Suffix(content_str(out), InsightsPreview)]]

report_research_prompt(research_topic) ==
    Lit("Conduct comprehensive research on: ") \o research_topic
        \o Lit(" Requirements: ... Focus on academic rigor, accuracy, and comprehensive coverage.")

report_analysis_prompt(research_findings) ==
    Lit("Analyze the research findings: ") \o ModelStr(research_findings)
        \o Lit(" Perform comprehensive analysis including: ... Focus on extracting meaningful insights and actionable recommendations.")

report_writing_prompt(research_findings, data_analysis) ==
    Lit("Create a comprehensive research report based on: Research Findings: ")
        \o ModelStr(research_findings)
        \o Lit(" Data Analysis: ") \o ModelStr(data_analysis)
        \o Lit(" Report should include: ... Use professional academic/business report format with clear structure and presentation.")

report_compile_final_report(topic, research, analysis, report) ==
    Lit("# Research Report: ") \o topic
        \o Lit(" ## Executive Summary ... data-driven recommendations for **") \o topic
        \o Lit("**. ## Research Methodology **Approach:** ") \o research.f.methodology
        \o Lit(" **Data Sources:** ") \o research.f.data_sources
        \o Lit(" ## Key Findings ") \o research.f.key_findings
        \o Lit(" ## Statistical Analysis **Insights:** ") \o analysis.f.statistical_insights
        \o Lit(" **Key Metrics:** ") \o analysis.f.key_metrics
        \o Lit(" **Trends & Patterns:** ") \o analysis.f.trends_patterns
        \o Lit(" ## Recommendations ") \o analysis.f.recommendations
        \o Lit(" ## Detailed Report ") \o report
        \o Lit(" ## Report Summary ... *Research report generated using coordinated AI agents through AGNO Research Report Workflow*")

ReportStartedEvent(research_topic) ==
    Lit("**Research Report Workflow Started** Topic: **") \o research_topic
        \o Lit("** This workflow will generate a comprehensive research report ...")
ReportResearchCompleteEvent(rf) ==
    Lit("**Research Complete** **Topic:** ") \o rf.f.research_topic
        \o Lit(" **Methodology:** ") \o Prefix(rf.f.methodology, 200)
        \o Lit("... **Key Findings:** ") \o Prefix(rf.f.key_findings, 200) \o Lit("...")
ReportAnalysisCompleteEvent(da) ==
    Lit("**Analysis Complete** **Statistical Insights:** ")
        \o Prefix(da.f.statistical_insights, 200)
        \o Lit("... **Recommendations:** ") \o Prefix(da.f.recommendations, 200) \o Lit("...")

ReportLocals ==
    [research_findings |-> <<>>, data_analysis |-> <<>>, final_report |-> <<>>,
     complete_report |-> <<>>]

\* lines 155-160
Report_Begin(r) ==
    /\ At(r, "research", "new")
    /\ Yield(r, "L158", ReportStartedEvent(subject[r]))
    /\ UNCHANGED <<session_state, run_response, started, wf, subject, flags,
                   status, calls, loc, prev>>

\* lines 162-177
Report_Phase1(r) ==
    /\ At(r, "research", "L158")
    /\ Yield(r, "L175", Lit("**Phase 1: Information Gathering** ResearchSpecialist-AI is conducting systematic research and data collection..."))
    /\ UNCHANGED <<session_state, run_response, started, wf, subject, flags,
                   status, calls, loc, prev>>

\* lines 180-197: phase 1, researcher
Report_Research(r) ==
    /\ At(r, "research", "L175")
    /\ \E out \in FindingsOutcomes :
         /\ calls' = [calls EXCEPT ![r] =
                         Append(@, Call("researcher", report_research_prompt(subject[r]), out))]
         /\ IF out.kind = "raise"
            THEN Escape(r) /\ UNCHANGED loc
            ELSE LET research_findings == ResearchFindingsOf(subject[r], out)
                 IN  /\ loc' = [loc EXCEPT ![r].research_findings = <<research_findings>>]
                     /\ Yield(r, "L195", ReportResearchCompleteEvent(research_findings))
                     /\ UNCHANGED status
    /\ UNCHANGED <<session_state, run_response, started, wf, subject, flags, prev>>

\* lines 200-215
Report_Phase2(r) ==
    /\ At(r, "research", "L195")
    /\ Yield(r, "L213", Lit("**Phase 2: Data Analysis** DataAnalyst-AI is analyzing research data and identifying patterns..."))
    /\ UNCHANGED <<session_state, run_response, started, wf, subject, flags,
                   status, calls, loc, prev>>

\* lines 218-235: phase 2, analyst
Report_Analysis(r) ==
    /\ At(r, "research", "L213")
    /\ \E out \in AnalysisOutcomes :
         /\ calls' = [calls EXCEPT ![r] =
                         Append(@, Call("analyst",
                                        report_analysis_prompt(loc[r].research_findings[1]), out))]
         /\ IF out.kind = "raise"
            THEN Escape(r) /\ UNCHANGED loc
            ELSE LET data_analysis == DataAnalysisOf(out)
                 IN  /\ loc' = [loc EXCEPT ![r].data_analysis = <<data_analysis>>]
                     /\ Yield(r, "L233", ReportAnalysisCompleteEvent(data_analysis))
                     /\ UNCHANGED status
    /\ UNCHANGED <<session_state, run_response, started, wf, subject, flags, prev>>

\* lines 238-257
Report_Phase3(r) ==
    /\ At(r, "research", "L233")
    /\ Yield(r, "L255", Lit("**Phase 3: Report Writing** ReportWriter-AI is crafting the comprehensive research report..."))
    /\ UNCHANGED <<session_state, run_response, started, wf, subject, flags,
                   status, calls, loc, prev>>

\* lines 260-265: phase 3, writer
Report_Writing(r) ==
    /\ At(r, "research", "L255")
    /\ \E out \in WriterOutcomes :
         /\ calls' = [calls EXCEPT ![r] =
                         Append(@, Call("writer",
                                        report_writing_prompt(loc[r].research_findings[1],
                                                              loc[r].data_analysis[1]), out))]
         /\ IF out.kind = "raise"
            THEN Escape(r) /\ UNCHANGED loc
            ELSE /\ loc' = [loc EXCEPT ![r].final_report = <<content_str(out)>>]
                 /\ Yield(r, "L263", Lit("**Report Writing Complete** Comprehensive research report has been prepared with professional formatting and structure."))
                 /\ UNCHANGED status
    /\ UNCHANGED <<session_state, run_response, started, wf, subject, flags, prev>>

\* lines 268-274: the compiled report
Report_Compile(r) ==
    /\ At(r, "research", "L263")
    /\ LET complete_report ==
               report_compile_final_report(subject[r], loc[r].research_findings[1],
                                           loc[r].data_analysis[1], loc[r].final_report[1])
       IN  /\ loc' = [loc EXCEPT ![r].complete_report = <<complete_report>>]
           /\ Yield(r, "L272", complete_report)
    /\ UNCHANGED <<session_state, run_response, started, wf, subject, flags,
                   status, calls, prev>>

\* line 276: end of run()
Report_Return(r) ==
    /\ At(r, "research", "L272")
    /\ Return(r, "done")
    /\ UNCHANGED <<session_state, run_response, started, wf, subject, flags,
                   calls, loc, prev>>

ReportNext(r) ==
    \/ Report_Begin(r)
    \/ Report_Phase1(r)
    \/ Report_Research(r)
    \/ Report_Phase2(r)
    \/ Report_Analysis(r)
    \/ Report_Phase3(r)
    \/ Report_Writing(r)
    \/ Report_Compile(r)
    \/ Report_Return(r)

(***************************************************************************)
(* Content pipeline workflow: src/workflows/content_pipeline_workflow.py   *)
(***************************************************************************)
ContentResearchOutcomes ==
    {Raise} \cup {TextOut(t) : t \in PlainTexts(KeyFactsPreview)}
        \cup {TypedOut(ShortTypedRec("ContentResearch"))}

DraftOutcomes ==
    {Raise, NoContent} \cup {TextOut(t) : t \in LinesTexts(IntroductionPreview)}
        \cup {TypedOut(ShortTypedRec("ContentDraft"))}

ContentAnalystOutcomes ==
    {Raise, NoContent, TextOut(Txt(1, PlainCycle)),
     TextOut(Txt(ContentAnalysisPreview + 1, PlainCycle))}

\* line.strip() is non-empty
Whitespace == {" ", "\n"}

\* next((line for line in content_str.split('\n') if line.strip()), default)
FirstNonBlankLine(t, default) ==
    LET ink == {i \in 1..Len(t) : t[i] \notin Whitespace}
    IN  IF ink = {} THEN default
        ELSE LET i == CHOOSE x \in ink : \A y \in ink : x <= y
                 before == {j \in 1..(i - 1) : t[j] = "\n"}
                 after == {j \in (i + 1)..Len(t) : t[j] = "\n"}
                 first == IF before = {} THEN 1
                          ELSE 1 + (CHOOSE x \in before : \A y \in before : y <= x)
                 last == IF after = {} THEN Len(t)
                         ELSE (CHOOSE x \in after : \A y \in after : x <= y) - 1
             IN  SubSeq(t, first, last)

\* a fallback that leaves the declared field `sources` out
ContentResearchOf_NoSources(topic, out) ==
    IF IsInstance(out, "ContentResearch")
    THEN out.rec
    ELSE [cls |-> "ContentResearch",
          f |-> [topic |-> topic,
                 key_facts |-> Preview(content_str(out), KeyFactsPreview),
                 content_angles |-> Lit("Various perspectives and approaches identified")]]

\* lines 183-193
ContentResearchOf(topic, out) ==
    IF IsInstance(out, "ContentResearch")
    THEN out.rec
    ELSE [cls |-> "ContentResearch",
          f |-> [topic |-> topic,
                 key_facts |-> Preview(content_str(out), KeyFactsPreview),
                 sources |-> Lit("Multiple authoritative online sources"),
                 content_angles |-> Lit("Various perspectives and approaches identified")]]

\* lines 223-235
ContentDraftOf(out) ==
    IF IsInstance(out, "ContentDraft")
    THEN out.rec
    ELSE [cls |-> "ContentDraft",
          f |-> [headline |-> FirstNonBlankLine(content_str(out), Lit("Generated Content")),
                 introduction |-> Preview(content_str(out), IntroductionPreview),
                 main_content |-> content_str(out),
                 conclusion |-> Lit("Summary and actionable insights provided.")]]

content_research_prompt(topic) ==
    Lit("Research the topic: ") \o topic
        \o Lit(" Provide comprehensive research including: ... Focus on accuracy, relevance, and unique value propositions.")

content_writing_prompt(topic, research_results) ==
    Lit("Based on this research: ") \o ModelStr(research_results)
        \o Lit(" Create compelling content for the topic: ") \o topic
        \o Lit(" Requirements: ... Use the research findings to ensure accuracy and include relevant examples.")

content_analysis_prompt(content_draft) ==
    Lit("Analyze and optimize this content: Headline: ") \o content_draft.f.headline
        \o Lit(" Introduction: ") \o content_draft.f.introduction
        \o Lit(" Main Content: ") \o content_draft.f.main_content
        \o Lit(" Conclusion: ") \o content_draft.f.conclusion
        \o Lit(" Provide: 1. Quality assessment ... 4. Overall content score and final recommendations")

compile_final_content_package(topic, research, content, analysis) ==
    Lit("# Content Pipeline Complete: ") \o topic
        \o Lit(" ## Final Content Package ### **Headline** ") \o content.f.headline
        \o Lit(" ### **Introduction** ") \o content.f.introduction
        \o Lit(" ### **Main Content** ") \o content.f.main_content
        \o Lit(" ### **Conclusion** ") \o content.f.conclusion
        \o Lit(" ## Research Foundation **Key Facts:** ") \o research.f.key_facts
        \o Lit(" **Sources:** ") \o research.f.sources
        \o Lit(" **Content Strategy:** ") \o research.f.content_angles
        \o Lit(" ## Quality Analysis ") \o analysis
        \o Lit(" ## Content Status ... *Content created using coordinated AI agents through AGNO Content Pipeline Workflow*")

ContentStartedEvent(topic) ==
    Lit("**Content Pipeline Workflow Started** Topic: **") \o topic
        \o Lit("** This workflow will create high-quality content ...")
ContentResearchCompleteEvent(cr) ==
    Lit("**Research Complete** **Topic:** ") \o cr.f.topic
        \o Lit(" **Key Facts:** ") \o Prefix(cr.f.key_facts, 200)
        \o Lit("... **Content Angles:** ") \o Prefix(cr.f.content_angles, 200) \o Lit("...")
ContentDraftCompleteEvent(cd) ==
    Lit("**Content Draft Complete** **Headline:** ") \o cd.f.headline
        \o Lit(" **Preview:** ") \o Prefix(cd.f.introduction, 200) \o Lit("...")
ContentAnalysisCompleteEvent(analysis_results) ==
    Lit("**Content Analysis Complete** ") \o Prefix(analysis_results, ContentAnalysisPreview)
        \o Lit("...")

ContentLocals ==
    [research_results |-> <<>>, content_draft |-> <<>>, analysis_results |-> <<>>,
     final_report |-> <<>>]

\* lines 155-160
Content_Begin(r) ==
    /\ At(r, "content", "new")
    /\ Yield(r, "L158", ContentStartedEvent(subject[r]))
    /\ UNCHANGED <<session_state, run_response, started, wf, subject, flags,
                   status, calls, loc, prev>>

\* lines 162-177
Content_Phase1(r) ==
    /\ At(r, "content", "L158")
    /\ Yield(r, "L175", Lit("**Phase 1: Content Research** ContentResearch-AI is gathering information and developing content angles..."))
    /\ UNCHANGED <<session_state, run_response, started, wf, subject, flags,
                   status, calls, loc, prev>>

\* lines 180-197: phase 1, researcher
Content_Research(r) ==
    /\ At(r, "content", "L175")
    /\ \E out \in ContentResearchOutcomes :
         /\ calls' = [calls EXCEPT ![r] =
                         Append(@, Call("researcher", content_research_prompt(subject[r]), out))]
         /\ IF out.kind = "raise"
            THEN Escape(r) /\ UNCHANGED loc
            ELSE LET research_results == ContentResearchOf(subject[r], out)
                 IN  /\ loc' = [loc EXCEPT ![r].research_results = <<research_results>>]
                     /\ Yield(r, "L195", ContentResearchCompleteEvent(research_results))
                     /\ UNCHANGED status
    /\ UNCHANGED <<session_state, run_response, started, wf, subject, flags, prev>>

\* lines 200-217
Content_Phase2(r) ==
    /\ At(r, "content", "L195")
    /\ Yield(r, "L215", Lit("**Phase 2: Content Creation** ContentCreator-AI is writing engaging content based on research findings..."))
    /\ UNCHANGED <<session_state, run_response, started, wf, subject, flags,
                   status, calls, loc, prev>>

\* lines 220-239: phase 2, writer
Content_Writing(r) ==
    /\ At(r, "content", "L215")
    /\ \E out \in DraftOutcomes :
         /\ calls' = [calls EXCEPT ![r] =
                         Append(@, Call("writer",
                                        content_writing_prompt(subject[r],
                                                               loc[r].research_results[1]), out))]
         /\ IF out.kind = "raise"
            THEN Escape(r) /\ UNCHANGED loc
            ELSE LET content_draft == ContentDraftOf(out)
                 IN  /\ loc' = [loc EXCEPT ![r].content_draft = <<content_draft>>]
                     /\ Yield(r, "L237", ContentDraftCompleteEvent(content_draft))
                     /\ UNCHANGED status
    /\ UNCHANGED <<session_state, run_response, started, wf, subject, flags, prev>>

\* lines 242-260
Content_Phase3(r) ==
    /\ At(r, "content", "L237")
    /\ Yield(r, "L258", Lit("**Phase 3: Content Analysis** ContentAnalyst-AI is analyzing and optimizing the content..."))
    /\ UNCHANGED <<session_state, run_response, started, wf, subject, flags,
                   status, calls, loc, prev>>

\* lines 263-268: phase 3, analyst; analysis_results[:300] raises TypeError
\* when the content is None
Content_Analysis(r) ==
    /\ At(r, "content", "L258")
    /\ \E out \in ContentAnalystOutcomes :
         /\ calls' = [calls EXCEPT ![r] =
                         Append(@, Call("analyst",
                                        content_analysis_prompt(loc[r].content_draft[1]), out))]
         /\ IF out.kind \in {"raise", "none"}
            THEN Escape(r) /\ UNCHANGED loc
            ELSE /\ loc' = [loc EXCEPT ![r].analysis_results = <<out.s>>]
                 /\ Yield(r, "L266", ContentAnalysisCompleteEvent(out.s))
                 /\ UNCHANGED status
    /\ UNCHANGED <<session_state, run_response, started, wf, subject, flags, prev>>

\* lines 271-277: the compiled content package
Content_Compile(r) ==
    /\ At(r, "content", "L266")
    /\ LET final_report ==
               compile_final_content_package(subject[r], loc[r].research_results[1],
                                             loc[r].content_draft[1],
                                             loc[r].analysis_results[1])
       IN  /\ loc' = [loc EXCEPT ![r].final_report = <<final_report>>]
           /\ Yield(r, "L275", final_report)
    /\ UNCHANGED <<session_state, run_response, started, wf, subject, flags,
                   status, calls, prev>>

\* line 279: end of run()
Content_Return(r) ==
    /\ At(r, "content", "L275")
    /\ Return(r, "done")
    /\ UNCHANGED <<session_state, run_response, started, wf, subject, flags,
                   calls, loc, prev>>

ContentNext(r) ==
    \/ Content_Begin(r)
    \/ Content_Phase1(r)
    \/ Content_Research(r)
    \/ Content_Phase2(r)
    \/ Content_Writing(r)
    \/ Content_Phase3(r)
    \/ Content_Analysis(r)
    \/ Content_Compile(r)
    \/ Content_Return(r)

(***************************************************************************)
(* Runs of one workflow object.                                            *)
(***************************************************************************)
Locals(w) ==
    CASE w = "market" -> MarketLocals
      [] w = "academic" -> AcademicLocals
      [] w = "research" -> ReportLocals
      [] w = "content" -> ContentLocals

FlagsOf(w) == IF w = "market" THEN MarketFlags ELSE CacheFlags

NoFlags == [none |-> TRUE]
NoLocals == [none |-> TRUE]

\* the final report run r produced: the cached report it yielded, or the
\* report it compiled
FinalReport(r) ==
    IF status[r] = "cached" THEN <<events[r][1]>>
    ELSE CASE wf = "market" -> loc[r].final_report
           [] wf = "academic" -> loc[r].complete_report
           [] wf = "research" -> loc[r].complete_report
           [] wf = "content" -> loc[r].final_report

\* the use_* flag that lets a run reuse what an earlier run produced
CacheEnabled(fl) == IF wf = "market" THEN fl.use_cached_report ELSE fl.use_cache

\* run r ended with a final report
Succeeded(r) == status[r] \in {"cached", "done"}

\* what the consumer keeps of run r when the next run repeats it: same
\* subject, cache use enabled in both, r ended with a final report
Repeats(r, s, fl) ==
    /\ Succeeded(r)
    /\ subject[r] = s
    /\ CacheEnabled(flags[r])
    /\ CacheEnabled(fl)

Summary(r) == [status |-> status[r], report |-> FinalReport(r)[1]]

Init ==
    /\ session_state = [market_research |-> EmptyNamespace,
                        financial_analysis |-> EmptyNamespace,
                        complete_analyses |-> EmptyNamespace]
    /\ run_response = <<>>
    /\ started = 0
    /\ wf \in Workflows
    /\ subject = [r \in RunIds |-> <<>>]
    /\ flags = [r \in RunIds |-> NoFlags]
    /\ pc = [r \in RunIds |-> "idle"]
    /\ status = [r \in RunIds |-> "idle"]
    /\ events = [r \in RunIds |-> <<>>]
    /\ calls = [r \in RunIds |-> <<>>]
    /\ loc = [r \in RunIds |-> NoLocals]
    /\ prev = <<>>

\* a run() that writes to the cache when it is called, before any event is
\* requested
Create_Eager(r, s, fl) ==
    /\ started' = r
    /\ subject' = [subject EXCEPT ![r] = s]
    /\ flags' = [flags EXCEPT ![r] = fl]
    /\ session_state' = cache_analysis(session_state, s, Lit("eager"))
    /\ UNCHANGED <<run_response, wf>>

\* workflow.run(subject, flags) creates generator r; nothing of the body
\* runs before the first next()
Create(r, s, fl) ==
    /\ started' = r
    /\ subject' = [subject EXCEPT ![r] = s]
    /\ flags' = [flags EXCEPT ![r] = fl]
    /\ UNCHANGED <<session_state, run_response, wf>>

\* a consumer that exhausts (or abandons on an exception) one run before it
\* makes the next: the old generator is dropped.  The subjects are
\* interchangeable, so the first run's subject is fixed.
StartRun(r) ==
    /\ r = started + 1
    /\ \A q \in RunIds : status[q] # "running"
    /\ \E s \in (IF r = 1 THEN SeedSubjects ELSE Subjects), fl \in FlagsOf(wf) :
         /\ Create(r, s, fl)
         /\ prev' = IF r > 1 /\ Repeats(r - 1, s, fl)
                    THEN <<Summary(r - 1)>>
                    ELSE <<>>
    /\ pc' = [q \in RunIds |-> IF q = r THEN "new" ELSE "idle"]
    /\ status' = [q \in RunIds |-> IF q = r THEN "running" ELSE "idle"]
    /\ events' = [q \in RunIds |-> <<>>]
    /\ calls' = [q \in RunIds |-> <<>>]
    /\ loc' = [q \in RunIds |-> IF q = r THEN Locals(wf) ELSE NoLocals]

\* a consumer that makes a run for another company while earlier runs of
\* the same MarketAnalysisWorkflow object are still suspended
StartConcurrent(r) ==
    /\ r = started + 1
    /\ wf = "market"
    /\ \E s \in Subjects, fl \in DefaultStepFlags :
         /\ \A q \in RunIds : status[q] # "idle" => subject[q] # s
         /\ Create(r, s, fl)
    /\ pc' = [pc EXCEPT ![r] = "new"]
    /\ status' = [status EXCEPT ![r] = "running"]
    /\ events' = [events EXCEPT ![r] = <<>>]
    /\ calls' = [calls EXCEPT ![r] = <<>>]
    /\ loc' = [loc EXCEPT ![r] = MarketLocals]
    /\ UNCHANGED prev

Resume(r) ==
    \/ MarketNext(r)
    \/ AcademicNext(r)
    \/ ReportNext(r)
    \/ ContentNext(r)

Next ==
    \E r \in RunIds :
        \/ StartRun(r)
        \/ Resume(r)

Spec == Init /\ [][Next]_vars

\* the session state a workflow object loads from its storage after an
\* earlier process completed one analysis of company s (researcher typed,
\* finance_analyst degraded)
SeededSession(s) ==
    LET mr == TypedRec("MarketResearch", <<"x">>)
    IN  [market_research |-> [EmptyNamespace EXCEPT ![s] = <<model_dump(mr)>>],
         financial_analysis |-> EmptyNamespace,
         complete_analyses |->
             [EmptyNamespace EXCEPT ![s] =
                 <<compile_final_report(s, mr, PlaceholderFinancialMetrics, <<"r", "1">>)>>]]

InitConc ==
    /\ wf = "market"
    /\ session_state \in {SeededSession(s) : s \in SeedSubjects}
    /\ run_response = <<>>
    /\ started = 0
    /\ subject = [r \in RunIds |-> <<>>]
    /\ flags = [r \in RunIds |-> NoFlags]
    /\ pc = [r \in RunIds |-> "idle"]
    /\ status = [r \in RunIds |-> "idle"]
    /\ events = [r \in RunIds |-> <<>>]
    /\ calls = [r \in RunIds |-> <<>>]
    /\ loc = [r \in RunIds |-> NoLocals]
    /\ prev = <<>>

NextConc ==
    \E r \in RunIds :
        \/ StartConcurrent(r)
        \/ MarketNext(r)

SpecConc == InitConc /\ [][NextConc]_vars

\* a dump stored before the last field of cls was declared: non-empty, and
\* rejected by cls.model_validate
StaleDump(cls) ==
    [k \in FieldSet(cls) \ {Fields(cls)[Len(Fields(cls))]} |-> <<"x">>]

\* the session state a workflow object loads from its storage when the
\* step entries of company s were stored under an older schema
StaleSession(s) ==
    [market_research |->
         [EmptyNamespace EXCEPT ![s] = <<StaleDump("MarketResearch")>>],
     financial_analysis |->
         [EmptyNamespace EXCEPT ![s] = <<StaleDump("FinancialMetrics")>>],
     complete_analyses |-> EmptyNamespace]

InitStale ==
    /\ wf = "market"
    /\ session_state \in {StaleSession(s) : s \in SeedSubjects}
    /\ run_response = <<>>
    /\ started = 0
    /\ subject = [r \in RunIds |-> <<>>]
    /\ flags = [r \in RunIds |-> NoFlags]
    /\ pc = [r \in RunIds |-> "idle"]
    /\ status = [r \in RunIds |-> "idle"]
    /\ events = [r \in RunIds |-> <<>>]
    /\ calls = [r \in RunIds |-> <<>>]
    /\ loc = [r \in RunIds |-> NoLocals]
    /\ prev = <<>>

NextStale ==
    \E r \in RunIds :
        \/ StartRun(r)
        \/ MarketNext(r)

\* sequential market runs on a session loaded with stale step entries
SpecStale == InitStale /\ [][NextStale]_vars

\* sequential runs whose consumer keeps consuming: a suspended run is
\* eventually resumed (every executor call returns or raises inside the
\* resumption that makes it)
SpecLive == Spec /\ WF_vars(\E r \in RunIds : Resume(r))

\* ---------------------------------------------------------------------
\* Properties
\* ---------------------------------------------------------------------

Last(q) == q[Len(q)]

Agents(r) == {calls[r][i].agent : i \in 1..Len(calls[r])}

\* the report namespace holds a final report for run r's company
ReportCached(r) == session_state.complete_analyses[subject[r]] # <<>>

\* C1: a market run made with use_cached_report = true while the report
\* namespace holds a final report for the company yields exactly one event,
\* whose content is that report, and then ends; it invokes no executor and
\* writes no cache entry.
C1_CachedReportShortCircuit ==
    /\ [][\A r \in RunIds :
            (/\ At(r, "market", "new")
             /\ flags[r].use_cached_report
             /\ ReportCached(r)
             /\ pc'[r] # "new")
            => /\ pc'[r] = "L173"
               /\ events'[r] = <<session_state.complete_analyses[subject[r]][1]>>
               /\ calls'[r] = <<>>
               /\ session_state' = session_state]_vars
    /\ [][\A r \in RunIds :
            (At(r, "market", "L173") /\ pc'[r] # "L173")
            => /\ status'[r] = "cached"
               /\ events'[r] = events[r]
               /\ calls'[r] = <<>>
               /\ session_state' = session_state]_vars
    /\ [](\A r \in RunIds :
            (wf = "market" /\ (pc[r] = "L173" \/ status[r] = "cached"))
            => Len(events[r]) = 1 /\ calls[r] = <<>>)

C1_Witness ==
    \E r \in RunIds :
        /\ wf = "market"
        /\ status[r] = "cached"
        /\ flags[r].use_cached_report
        /\ events[r] = <<session_state.complete_analyses[subject[r]][1]>>

\* step 1 of market run r has been executed and returned no record
ResearchFailed(r) ==
    /\ wf = "market"
    /\ status[r] \notin {"idle", "cached"}
    /\ pc[r] \notin {"new", "L173", "L177", "L178"}
    /\ loc[r].market_research = <<>>

\* C2: when the required first step of a market run returns no record, the
\* run emits exactly one Failed event, that event is the last event of the
\* run, and no later step's executor is invoked.
C2_RequiredStepFailureTerminates ==
    /\ [](\A r \in RunIds :
            ResearchFailed(r)
            => /\ pc[r] \in {"L182", "end"}
               /\ status[r] = (IF pc[r] = "end" THEN "failed" ELSE "running")
               /\ Last(events[r]) = MarketFailedEvent(subject[r])
               /\ Cardinality({i \in 1..Len(events[r]) :
                                 events[r][i] = MarketFailedEvent(subject[r])}) = 1
               /\ Agents(r) \subseteq {"researcher"})
    /\ [][\A r \in RunIds :
            (At(r, "market", "L182") /\ pc'[r] # "L182")
            => /\ status'[r] = "failed"
               /\ events'[r] = events[r]
               /\ calls'[r] = calls[r]]_vars

C2_Witness ==
    \E r \in RunIds :
        /\ wf = "market"
        /\ status[r] = "failed"
        /\ Agents(r) = {"researcher"}
        /\ Last(events[r]) = MarketFailedEvent(subject[r])

\* the executors configured with a response_model
SchemaAgents ==
    CASE wf = "market" -> {"researcher", "finance_analyst"}
      [] wf = "academic" -> {"literature_specialist", "verification_team"}
      [] wf = "research" -> {"researcher", "analyst"}
      [] wf = "content" -> {"researcher", "writer"}

\* C3: when a step's executor raises, no exception escapes run(): the run
\* continues with a degraded record or ends with a Failed event.
C3_NoExceptionEscapes ==
    \A r \in RunIds :
        (calls[r] # <<>> /\ Last(calls[r]).out.kind = "raise")
        => status[r] # "raised"

\* C4: when the executor of a step with a declared schema returns
\* unstructured text, the run builds a fallback record and proceeds; it
\* never ends with a Failed event.
C4_TextNeverFails ==
    \A r \in RunIds :
        (/\ calls[r] # <<>>
         /\ Last(calls[r]).agent \in SchemaAgents
         /\ Last(calls[r]).out.kind = "text")
        => pc[r] # "L182" /\ status[r] # "failed"

\* the step records run r holds, each with its declared class
StepRecords(r) ==
    CASE wf = "market" ->
            {<<"researcher", "MarketResearch", loc[r].market_research>>,
             <<"finance_analyst", "FinancialMetrics", loc[r].financial_metrics>>}
      [] wf = "academic" ->
            {<<"literature_specialist", "LiteratureFindings", loc[r].literature_findings>>,
             <<"verification_team", "FactCheckResults", loc[r].fact_check_results>>}
      [] wf = "research" ->
            {<<"researcher", "ResearchFindings", loc[r].research_findings>>,
             <<"analyst", "DataAnalysis", loc[r].data_analysis>>}
      [] wf = "content" ->
            {<<"researcher", "ContentResearch", loc[r].research_results>>,
             <<"writer", "ContentDraft", loc[r].content_draft>>}

IsStr(v) == v \in Seq(STRING)

\* what pydantic accepts for the declared fields of rec's class
Populated(rec) ==
    /\ DOMAIN rec.f = FieldSet(rec.cls)
    /\ \A k \in FieldSet(rec.cls) :
          IF k \in ListFields
          THEN rec.f[k] \in Seq(Seq(STRING))
          ELSE IsStr(rec.f[k])

\* C5: whatever a step's executor returns (a typed record or any text,
\* the empty text included), the record handed to the following step is of
\* the declared class with every declared field populated, and building it
\* never raises: an exception leaves run() only from an executor that
\* raised or from slicing a missing quality assessment.
C5_RecordsFullyPopulated ==
    \A r \in RunIds :
        status[r] # "idle" =>
            /\ \A p \in StepRecords(r) :
                  /\ p[3] # <<>> => p[3][1].cls = p[2] /\ Populated(p[3][1])
                  /\ (/\ wf # "market"
                      /\ \E i \in 1..Len(calls[r]) :
                            /\ calls[r][i].agent = p[1]
                            /\ i <= 2
                            /\ calls[r][i].out.kind # "raise")
                     => p[3] # <<>>
            /\ (wf = "market" /\ "risk_analyst" \in Agents(r))
               => \A p \in StepRecords(r) : p[3] # <<>>
            /\ status[r] = "raised"
               => \/ Last(calls[r]).out.kind = "raise"
                  \/ /\ wf = "content"
                     /\ Last(calls[r]).agent = "analyst"
                     /\ Last(calls[r]).out.kind = "none"

C5_Witness ==
    \E r \in RunIds :
        /\ wf = "content"
        /\ Len(calls[r]) = 2
        /\ calls[r][1].out.kind = "text"
        /\ Len(calls[r][1].out.s) > KeyFactsPreview
        /\ loc[r].research_results # <<>>
        /\ calls[r][2].out.kind = "text"
        /\ calls[r][2].out.s = <<>>
        /\ loc[r].content_draft # <<>>

\* the fallback fields that keep a preview of the executor's text: the
\* call that produced the text, the bound, the field in the step's record,
\* and whether the next prompt interpolates the whole record (str(model),
\* which shows each field through repr) or the field itself
PreviewFields(r) ==
    CASE wf = "market" -> {}
      [] wf = "academic" ->
            {[i |-> 1, bound |-> LiteraturePreview, rec |-> loc[r].literature_findings,
              field |-> "research_gaps", repr |-> FALSE]}
      [] wf = "research" ->
            {[i |-> 1, bound |-> KeyFindingsPreview, rec |-> loc[r].research_findings,
              field |-> "key_findings", repr |-> TRUE],
             [i |-> 2, bound |-> InsightsPreview, rec |-> loc[r].data_analysis,
              field |-> "statistical_insights", repr |-> TRUE]}
      [] wf = "content" ->
            {[i |-> 1, bound |-> KeyFactsPreview, rec |-> loc[r].research_results,
              field |-> "key_facts", repr |-> TRUE],
             [i |-> 2, bound |-> IntroductionPreview, rec |-> loc[r].content_draft,
              field |-> "introduction", repr |-> FALSE]}

\* every preview field built from a text longer than its bound is the
\* first bound characters of the text followed by tail, and the prompt of
\* the next executor call carries that field
PreviewIs(tail) ==
    \A r \in RunIds :
        status[r] # "idle" =>
            \A pf \in PreviewFields(r) :
                (/\ Len(calls[r]) >= pf.i
                 /\ calls[r][pf.i].out.kind = "text"
                 /\ Len(calls[r][pf.i].out.s) > pf.bound)
                => LET text == Prefix(calls[r][pf.i].out.s, pf.bound) \o tail
                   IN  /\ pf.rec # <<>>
                       /\ pf.rec[1].f[pf.field] = text
                       /\ Len(calls[r]) = pf.i + 1
                          => Contains(calls[r][pf.i + 1].prompt,
                                      IF pf.repr THEN StrRepr(text) ELSE text)

C7_RerunIdempotent ==
    prev # <<>> =>
        \A r \in RunIds :
            status[r] # "idle" =>
                /\ calls[r] = <<>>
                /\ Succeeded(r) => FinalReport(r) = <<prev[1].report>>

\* C8: in every successful run of every workflow the event that carries
\* the compiled final report is the last event of the run.
C8_ReportEventIsLast ==
    \A r \in RunIds :
        status[r] = "done" => Last(events[r]) = FinalReport(r)[1]

\* C9: a run that reaches Done has emitted the final report as its last
\* event, and where the workflow caches whole runs the report namespace
\* entry for the run's subject holds that same report.
C9_DoneEmitsAndCachesReport ==
    \A r \in RunIds :
        status[r] = "done" =>
            /\ FinalReport(r) # <<>>
            /\ events[r][Len(events[r])] = FinalReport(r)[1]
            /\ wf = "market" =>
                  get_cached_analysis(session_state, subject[r]) = FinalReport(r)

\* the risk assessment produced by run r's own risk_analyst call
OwnRiskAssessment(r) ==
    LET i == CHOOSE i \in 1..Len(calls[r]) : calls[r][i].agent = "risk_analyst"
    IN  calls[r][i].out.s

\* C10: interleaved market runs for different companies share no mutable
\* state: the report compiled and cached under each company contains the
\* risk assessment of that run's own risk_analyst call.
C10_OwnRiskAssessmentCompiled ==
    \A r \in RunIds :
        (wf = "market" /\ status[r] = "done") =>
            LET own == compile_final_report(subject[r], loc[r].market_research[1],
                                            loc[r].financial_metrics[1],
                                            OwnRiskAssessment(r))
            IN  /\ loc[r].final_report = <<own>>
                /\ session_state.complete_analyses[subject[r]] = <<own>>

\* the two cached steps of the market workflow: where the run is suspended
\* before the step, its namespace, record class, executor, flag and local
MarketSteps ==
    {[pc |-> "L178", ns |-> "market_research", cls |-> "MarketResearch",
      agent |-> "researcher", flag |-> "use_search_cache",
      field |-> "market_research"],
     [pc |-> "L194", ns |-> "financial_analysis", cls |-> "FinancialMetrics",
      agent |-> "finance_analyst", flag |-> "use_financial_cache",
      field |-> "financial_metrics"]}

\* run r executes step st in this transition
Executes(r, st) == At(r, "market", st.pc) /\ pc'[r] # st.pc

\* C11: market steps 1 and 2 with their cache flag true: when the step
\* namespace holds a valid record for the company the step returns that
\* record and its executor is not invoked; when it holds none the executor
\* is invoked exactly once and a structured result is written to the step
\* namespace under the company key.
C11_StepCacheReadThrough ==
    [][\A r \in RunIds : \A st \in MarketSteps :
          (Executes(r, st) /\ flags[r][st.flag])
          => LET cached == session_state[st.ns][subject[r]]
             IN  IF cached # <<>> /\ DOMAIN cached[1] = FieldSet(st.cls)
                 THEN /\ loc'[r][st.field] = <<[cls |-> st.cls, f |-> cached[1]]>>
                      /\ calls'[r] = calls[r]
                      /\ session_state' = session_state
                 ELSE cached = <<>>
                      => /\ Len(calls'[r]) = Len(calls[r]) + 1
                         /\ Last(calls'[r]).agent = st.agent
                         /\ Last(calls'[r]).out.kind = "typed"
                            => /\ session_state'[st.ns][subject[r]]
                                      = <<Last(calls'[r]).out.rec.f>>
                               /\ loc'[r][st.field] = <<Last(calls'[r]).out.rec>>]_vars

\* both steps of a run answered from their namespaces
C11_Witness ==
    \E r \in RunIds :
        /\ wf = "market"
        /\ pc[r] = "L206"
        /\ flags[r].use_search_cache /\ flags[r].use_financial_cache
        /\ calls[r] = <<>>
        /\ session_state.market_research[subject[r]] = <<loc[r].market_research[1].f>>
        /\ session_state.financial_analysis[subject[r]] = <<loc[r].financial_metrics[1].f>>

\* C12: each market cache flag governs the use of cached values: with the
\* flag false the cached value is never returned or emitted by the run,
\* even when present, and the executor is invoked.
C12_FlagsGovernCacheUse ==
    /\ [][\A r \in RunIds : \A st \in MarketSteps :
            (Executes(r, st) /\ ~flags[r][st.flag])
            => /\ Len(calls'[r]) = Len(calls[r]) + 1
               /\ Last(calls'[r]).agent = st.agent
               /\ loc'[r][st.field] =
                     IF Last(calls'[r]).out.kind = "typed"
                     THEN <<Last(calls'[r]).out.rec>>
                     ELSE <<>>]_vars
    /\ [][\A r \in RunIds :
            (At(r, "market", "new") /\ ~flags[r].use_cached_report /\ pc'[r] # "new")
            => /\ pc'[r] = "L177"
               /\ events'[r] = <<MarketStartedEvent(subject[r])>>]_vars
    /\ [](\A r \in RunIds :
            (wf = "market" /\ status[r] # "idle" /\ ~flags[r].use_cached_report)
            => /\ status[r] # "cached"
               /\ pc[r] # "L173"
               /\ status[r] = "done" => Agents(r) # {})

\* a run told not to use the research cache, with a record cached for its
\* company, that invoked the researcher and got nothing structured back
C12_Witness ==
    \E r \in RunIds :
        /\ wf = "market"
        /\ pc[r] = "L182"
        /\ ~flags[r].use_search_cache
        /\ session_state.market_research[subject[r]] # <<>>
        /\ Agents(r) = {"researcher"}

\* C13: read-after-write on the market cache: get_cached_analysis(c) right
\* after cache_analysis(c, v) returns v, and a step-cache lookup right
\* after a step-cache write returns a record equal to the one written, for
\* every company and namespace and from every cache state a run can reach.
C13_ReadAfterWrite ==
    /\ \A c \in Subjects : \A v \in {<<"v">>} \cup RiskTexts :
          get_cached_analysis(cache_analysis(session_state, c, v), c) = <<v>>
    /\ \A c \in Subjects : \A st \in MarketSteps : \A rec \in TypedRecs(st.cls) :
          LET put == GetStep(session_state, st.ns, st.cls, st.agent, <<>>, c,
                             FALSE, TypedOut(rec))
              get == GetStep(put.ss, st.ns, st.cls, st.agent, <<>>, c, TRUE, Raise)
          IN  /\ put.ss[st.ns][c] = <<model_dump(rec)>>
              /\ get.ret = <<rec>>
              /\ get.invoked = <<>>
    /\ \A r \in RunIds :
          (wf = "market" /\ pc[r] = "L253")
          => get_cached_analysis(session_state, subject[r]) = loc[r].final_report

\* the second run, for the first run's company, has just compiled and cached
\* its report
C13_Witness ==
    \E r \in RunIds :
        /\ wf = "market"
        /\ pc[r] = "L253"
        /\ prev = <<>>
        /\ r = 2
        /\ subject[r] \in SeedSubjects
        /\ session_state.complete_analyses[subject[r]] = loc[r].final_report
        /\ session_state.market_research[subject[r]] # <<>>

Namespaces == {"market_research", "financial_analysis", "complete_analyses"}

\* the session state with every entry not keyed by company c removed
OnlyOwn(ss, c) ==
    [ns \in Namespaces |-> [d \in Subjects |-> IF d = c THEN ss[ns][d] ELSE <<>>]]

\* C14: no cross-subject sharing in the market cache: what a run for
\* company A reads depends only on the entries keyed A, a resumption of
\* the run leaves every entry keyed by another company unchanged in all
\* three namespaces, and a write to one namespace leaves the other two
\* unchanged.
C14_NoCrossSubjectSharing ==
    /\ [](\A r \in RunIds :
            (wf = "market" /\ status[r] = "running")
            => LET own == OnlyOwn(session_state, subject[r])
               IN  /\ get_cached_analysis(own, subject[r])
                         = get_cached_analysis(session_state, subject[r])
                   /\ \A st \in MarketSteps :
                         GetStep(own, st.ns, st.cls, st.agent, <<>>, subject[r],
                                 TRUE, Raise).ret
                         = GetStep(session_state, st.ns, st.cls, st.agent, <<>>,
                                   subject[r], TRUE, Raise).ret)
    /\ [][\A r \in RunIds :
            (wf = "market" /\ status[r] = "running" /\ pc'[r] # pc[r])
            => /\ \A ns \in Namespaces : \A c \in Subjects \ {subject[r]} :
                     session_state'[ns][c] = session_state[ns][c]
               /\ Cardinality({ns \in Namespaces :
                                 session_state'[ns] # session_state[ns]}) <= 1]_vars

\* a run for one company has written all three of its entries while another
\* company's entries are present
C14_Witness ==
    \E r \in RunIds : \E c \in Subjects \ {subject[r]} :
        /\ wf = "market"
        /\ pc[r] = "L253"
        /\ Len(calls[r]) = 3
        /\ \A ns \in Namespaces :
              /\ session_state[ns][c] # <<>>
              /\ session_state[ns][subject[r]] # <<>>
              /\ session_state[ns][c] # session_state[ns][subject[r]]

\* the executors of each workflow in the order run() declares its steps
DeclaredOrder ==
    CASE wf = "market" -> <<"researcher", "finance_analyst", "risk_analyst">>
      [] wf = "academic" -> <<"literature_specialist", "verification_team",
                              "citation_analyst", "report_generator">>
      [] wf = "research" -> <<"researcher", "analyst", "writer">>
      [] wf = "content" -> <<"researcher", "writer", "analyst">>

StepNo(agent) == CHOOSE k \in 1..Len(DeclaredOrder) : DeclaredOrder[k] = agent

\* C15: within one run the steps execute strictly in declared sequence
\* with no overlap: executors are invoked in declared order, each at most
\* once, every call is a synchronous call completed (returned or raised)
\* inside the resumption that makes it, and one resumption makes at most
\* one call.
C15_StepsInDeclaredSequence ==
    /\ [](\A r \in RunIds : \A i \in 1..Len(calls[r]) :
            /\ calls[r][i].agent \in {DeclaredOrder[k] : k \in 1..Len(DeclaredOrder)}
            /\ wf # "market" => StepNo(calls[r][i].agent) = i
            /\ \A j \in 1..(i - 1) :
                  StepNo(calls[r][j].agent) < StepNo(calls[r][i].agent))
    /\ [][\A r \in RunIds :
            \/ calls'[r] = calls[r]
            \/ calls'[r] = <<>>
            \/ /\ Len(calls'[r]) = Len(calls[r]) + 1
               /\ SubSeq(calls'[r], 1, Len(calls[r])) = calls[r]
               /\ \A q \in RunIds \ {r} : calls'[q] = calls[q]]_vars

\* an academic run that invoked its four executors and ended
C15_Witness ==
    \E r \in RunIds :
        /\ wf = "academic"
        /\ status[r] = "done"
        /\ [i \in 1..Len(calls[r]) |-> calls[r][i].agent] = DeclaredOrder

\* prompt shows the value of a record field: a str verbatim or escaped as
\* repr and json.dumps escape it, a list as its repr
ShowsValue(prompt, k, v) ==
    IF k \in ListFields
    THEN Contains(prompt, ListRepr(v))
    ELSE Contains(prompt, v) \/ Contains(prompt, Escaped(v))

\* prompt carries record rec: some declared field of it is shown
Carries(prompt, rec) ==
    \E k \in FieldSet(rec.cls) : ShowsValue(prompt, k, rec.f[k])

\* C16: in every workflow the validated record of a step that is followed
\* by another step is part of the input passed to the next step's
\* executor: whenever that executor has been invoked, its prompt carries
\* the record.
C16_RecordThreadedIntoNextStep ==
    \A r \in RunIds :
        status[r] # "idle" =>
            \A p \in StepRecords(r) : \A i \in 1..Len(calls[r]) :
                (/\ StepNo(calls[r][i].agent) = StepNo(p[1]) + 1
                 /\ p[3] # <<>>)
                => Carries(calls[r][i].prompt, p[3][1])

\* step 2 of market run r invoked the finance_analyst, which raised or
\* returned no structured record
FinanceFailed(r) ==
    /\ wf = "market"
    /\ \E i \in 1..Len(calls[r]) :
          /\ calls[r][i].agent = "finance_analyst"
          /\ calls[r][i].out.kind # "typed"

DegradedNotices == {MarketLimitedEvent}

\* the record p of run r is a fallback: its executor was invoked and
\* returned something that is not a structured record
IsFallback(r, p) ==
    /\ p[3] # <<>>
    /\ \E i \in 1..Len(calls[r]) :
          /\ calls[r][i].agent = p[1]
          /\ calls[r][i].out.kind \in {"text", "none"}

\* C18: whenever a step's record is a fallback built from unstructured
\* output, the run has emitted an event that flags the step as degraded.
C18_FallbackIsFlagged ==
    \A r \in RunIds :
        status[r] # "idle" =>
            \A p \in StepRecords(r) :
                IsFallback(r, p)
                => \E j \in 1..Len(events[r]) : events[r][j] \in DegradedNotices

\* the consumer requests a further event of run r in this transition
Resumed(r) == status[r] = "running" /\ pc'[r] # pc[r]

\* C19: run() is lazy: calling it executes nothing, an executor is invoked
\* and the cache written only inside a resumption requested by the
\* consumer, and a resumption does the work of one step at most and then
\* emits one event or ends the run.  A run that is not resumed after its
\* k-th event makes no further executor call and no further cache write.
C19_LazyEventSequence ==
    [][/\ \A r \in RunIds :
             /\ (pc'[r] = "new" /\ pc[r] # "new")
                => /\ calls'[r] = <<>>
                   /\ events'[r] = <<>>
                   /\ session_state' = session_state
                   /\ run_response' = run_response
             /\ (calls'[r] # calls[r] /\ calls'[r] # <<>>) => Resumed(r)
             /\ (events'[r] # events[r] /\ events'[r] # <<>>) => Resumed(r)
             /\ Resumed(r)
                => /\ Len(calls'[r]) <= Len(calls[r]) + 1
                   /\ \/ /\ Len(events'[r]) = Len(events[r]) + 1
                         /\ status'[r] = "running"
                      \/ /\ events'[r] = events[r]
                         /\ status'[r] \in {"cached", "failed", "done", "raised"}
       /\ (session_state' # session_state \/ run_response' # run_response)
          => \E r \in RunIds : Resumed(r)]_vars

\* an academic run suspended after its third event: one executor invoked,
\* the later ones not
C19_Witness ==
    \E r \in RunIds :
        /\ wf = "academic"
        /\ status[r] = "running"
        /\ pc[r] = "L183"
        /\ Len(events[r]) = 3
        /\ Agents(r) = {"literature_specialist"}

\* where each run() is suspended right before and right after it compiles
\* (the academic run compiles in the resumption that invokes the
\* report_generator)
CompileAt ==
    CASE wf = "market" -> [from |-> "L244", to |-> "L253"]
      [] wf = "academic" -> [from |-> "L240", to |-> "L258"]
      [] wf = "research" -> [from |-> "L263", to |-> "L272"]
      [] wf = "content" -> [from |-> "L266", to |-> "L275"]

\* the workflow's template applied to the subject and to what run r has
\* accumulated
Compiled(r) ==
    CASE wf = "market" ->
            compile_final_report(subject[r], loc[r].market_research[1],
                                 loc[r].financial_metrics[1], OwnRiskAssessment(r))
      [] wf = "academic" ->
            _compile_comprehensive_report(subject[r], loc[r].literature_findings[1],
                                          loc[r].fact_check_results[1],
                                          loc[r].citation_analysis[1],
                                          content_str(Last(calls[r]).out))
      [] wf = "research" ->
            report_compile_final_report(subject[r], loc[r].research_findings[1],
                                        loc[r].data_analysis[1], loc[r].final_report[1])
      [] wf = "content" ->
            compile_final_content_package(subject[r], loc[r].research_results[1],
                                          loc[r].content_draft[1],
                                          loc[r].analysis_results[1])

\* C20: compiling is a pure, total function.  In every workflow the report
\* a run compiled is its template applied to the subject and to the step
\* outputs the run accumulated, whatever the cache holds; the compilation
\* changes no accumulated record, invokes no executor beyond the step it
\* belongs to and writes nothing but the market report entry cached after
\* it; and a run that is about to compile can always be resumed and
\* raises only if the executor invoked in that resumption raises.
C20_CompilePureAndTotal ==
    /\ [](\A r \in RunIds :
            /\ (/\ status[r] \in {"running", "done"}
                /\ pc[r] \in {CompileAt.to, "end"})
               => FinalReport(r) = <<Compiled(r)>>
            /\ (status[r] = "running" /\ pc[r] = CompileAt.from)
               => ENABLED Resume(r))
    /\ [][\A r \in RunIds :
            (status[r] = "running" /\ pc[r] = CompileAt.from /\ pc'[r] # pc[r])
            => /\ \/ pc'[r] = CompileAt.to
                  \/ /\ status'[r] = "raised"
                     /\ Last(calls'[r]).out.kind = "raise"
               /\ subject'[r] = subject[r]
               /\ Len(calls'[r]) = Len(calls[r]) + (IF wf = "academic" THEN 1 ELSE 0)
               /\ \A p \in StepRecords(r) :
                     \E q \in StepRecords(r)' : q = p
               /\ \A ns \in Namespaces : \A c \in Subjects :
                     session_state'[ns][c] # session_state[ns][c]
                     => /\ wf = "market"
                        /\ ns = "complete_analyses"
                        /\ c = subject[r]
                        /\ session_state'[ns][c] = FinalReport(r)']_vars

\* a second market run that compiled from a degraded step 2 while the
\* cache holds a financial record for its company, and an academic run that
\* compiled although two executors returned no content
C20_Witness ==
    \E r \in RunIds :
        /\ status[r] = "done"
        /\ FinalReport(r) = <<Compiled(r)>>
        /\ \/ /\ wf = "market"
              /\ loc[r].financial_metrics = <<PlaceholderFinancialMetrics>>
              /\ session_state.financial_analysis[subject[r]] # <<>>
           \/ /\ wf = "academic"
              /\ calls[r][3].out.kind = "none"
              /\ calls[r][4].out.kind = "none"

\* C21: a step result that is not served from the cache is written to the
\* cache before the step's completion event is emitted.  In every
\* workflow, when a resumption of a run invokes a step executor that
\* returns an instance of the step's schema and then emits the step's
\* completion event, the cache holds that record under the run's subject
\* by the time the event is emitted.
C21_ResultCachedBeforeCompletionEvent ==
    [][\A r \in RunIds :
          (/\ status[r] = "running"
           /\ Len(calls'[r]) = Len(calls[r]) + 1
           /\ Last(calls'[r]).out.kind = "typed"
           /\ Len(events'[r]) = Len(events[r]) + 1)
          => \E ns \in Namespaces :
                session_state'[ns][subject[r]]
                    = <<model_dump(Last(calls'[r]).out.rec)>>]_vars

\* C22: an executor output that already is an instance of the step's
\* schema is passed through unchanged.  In every workflow, whenever a
\* step executor of a run returned an instance of its step's schema, the
\* record the run holds for that step is that instance, field for field.
C22_TypedOutputPassedThrough ==
    \A r \in RunIds : \A i \in 1..Len(calls[r]) : \A p \in StepRecords(r) :
        (calls[r][i].agent = p[1] /\ IsInstance(calls[r][i].out, p[2]))
        => p[3] = <<calls[r][i].out.rec>>

\* an academic run that finished after both its schema steps returned
\* typed instances, the first with a topic other than the run's subject
C22_Witness ==
    \E r \in RunIds :
        /\ wf = "academic"
        /\ status[r] = "done"
        /\ IsInstance(calls[r][1].out, "LiteratureFindings")
        /\ IsInstance(calls[r][2].out, "FactCheckResults")
        /\ calls[r][1].out.rec.f.research_topic # subject[r]
        /\ loc[r].literature_findings = <<calls[r][1].out.rec>>

\* call number k of run r failed or was degraded: the executor raised,
\* returned no content, or returned text where the step has a schema
StepFailed(r, k) ==
    \/ calls[r][k].out.kind \in {"raise", "none"}
    \/ /\ calls[r][k].out.kind = "text"
       /\ \E p \in StepRecords(r) : p[1] = calls[r][k].agent

\* C23: within one run the workflow invokes each step executor at most
\* once, and after a failure or degradation of a step no executor of that
\* step or of an earlier step is invoked again: every later invocation
\* of the run is of a later step.
C23_NoStepInvokedAgain ==
    \A r \in RunIds :
        /\ \A a \in Agents(r) :
              Cardinality({i \in 1..Len(calls[r]) : calls[r][i].agent = a}) = 1
        /\ \A k \in 1..Len(calls[r]) :
              StepFailed(r, k)
              => \A j \in (k + 1)..Len(calls[r]) :
                    StepNo(calls[r][j].agent) > StepNo(calls[r][k].agent)

\* a market run that went on to the risk_analyst after its finance_analyst
\* raised, and ended Done
C23_Witness ==
    \E r \in RunIds :
        /\ wf = "market"
        /\ status[r] = "done"
        /\ Len(calls[r]) = 3
        /\ calls[r][2].out.kind = "raise"
        /\ StepFailed(r, 2)

\* C24: the function step of the academic workflow makes no model call.
\* From the return of the literature_specialist up to the invocation of
\* the verification_team the run has invoked no other executor, the
\* resumptions in between invoke none and leave the cache alone, and the
\* input the verification_team is invoked with is
\* _prepare_verification_input of the literature record.
C24_FunctionStepMakesNoModelCall ==
    /\ [](\A r \in RunIds :
            (wf = "academic" /\ status[r] # "idle")
            => /\ pc[r] \in {"L183", "L188", "L193", "L198"}
                  => Agents(r) = {"literature_specialist"} /\ Len(calls[r]) = 1
               /\ pc[r] \in {"L193", "L198"}
                  => loc[r].verification_prompt
                        = <<_prepare_verification_input(loc[r].literature_findings[1])>>
               /\ Len(calls[r]) >= 2
                  => /\ calls[r][1].agent = "literature_specialist"
                     /\ calls[r][2].agent = "verification_team"
                     /\ calls[r][2].prompt
                           = _prepare_verification_input(loc[r].literature_findings[1]))
    /\ [][\A r \in RunIds :
            (wf = "academic" /\ pc[r] \in {"L183", "L188", "L193"} /\ pc'[r] # pc[r])
            => /\ calls'[r] = calls[r]
               /\ session_state' = session_state
               /\ loc'[r].literature_findings = loc[r].literature_findings]_vars

\* an academic run whose verification_team has returned, after a
\* literature_specialist result naming a topic other than the run's subject
C24_Witness ==
    \E r \in RunIds :
        /\ wf = "academic"
        /\ status[r] = "running"
        /\ pc[r] = "L217"
        /\ Len(calls[r]) = 2
        /\ IsInstance(calls[r][1].out, "LiteratureFindings")
        /\ loc[r].literature_findings[1].f.research_topic # subject[r]
        /\ calls[r][2].prompt = _prepare_verification_input(loc[r].literature_findings[1])

\* C25: in market analysis the cache flags gate reads only, never writes.
\* Whatever the three flags of a run are, once a step executor of the run
\* has returned a structured record the step's namespace holds the dump
\* of that record under the run's company, and once the run has compiled
\* its report (so also when it has reached Done) the report namespace
\* holds that report under the company.
C25_FlagsGateReadsOnly ==
    \A r \in RunIds :
        (wf = "market" /\ status[r] # "idle")
        => /\ \A i \in 1..Len(calls[r]) : \A st \in MarketSteps :
                 (calls[r][i].agent = st.agent /\ IsInstance(calls[r][i].out, st.cls))
                 => session_state[st.ns][subject[r]] = <<model_dump(calls[r][i].out.rec)>>
           /\ (status[r] = "done" \/ pc[r] = "L253")
              => /\ loc[r].final_report # <<>>
                 /\ session_state.complete_analyses[subject[r]] = loc[r].final_report

\* a second market run, made with all three flags false, that reached Done
\* after both step executors returned structured records
C25_Witness ==
    \E r \in RunIds :
        /\ wf = "market"
        /\ r = 2
        /\ status[r] = "done"
        /\ ~flags[r].use_search_cache
        /\ ~flags[r].use_financial_cache
        /\ ~flags[r].use_cached_report
        /\ IsInstance(calls[r][1].out, "MarketResearch")
        /\ IsInstance(calls[r][2].out, "FinancialMetrics")
        /\ session_state.complete_analyses[subject[r]] = loc[r].final_report

\* C26: only structured executor results enter the market step caches.
\* Every change of a market_research or financial_analysis entry is made
\* by a resumption in which the step's executor returned an instance of
\* the step's schema for the company, and the new entry is the dump of
\* that instance; the placeholder FinancialMetrics is never an entry; and
\* a run that ended Failed got no structured record and compiled no
\* report, so it made no write in any namespace.
C26_OnlyStructuredResultsCached ==
    /\ [][\A c \in Subjects :
            /\ \A st \in MarketSteps :
                  session_state'[st.ns][c] # session_state[st.ns][c]
                  => \E r \in RunIds :
                        /\ wf = "market"
                        /\ subject[r] = c
                        /\ Executes(r, st)
                        /\ Len(calls'[r]) = Len(calls[r]) + 1
                        /\ Last(calls'[r]).agent = st.agent
                        /\ IsInstance(Last(calls'[r]).out, st.cls)
                        /\ session_state'[st.ns][c]
                              = <<model_dump(Last(calls'[r]).out.rec)>>
            /\ session_state'.complete_analyses[c] # session_state.complete_analyses[c]
               => \E r \in RunIds :
                     /\ At(r, "market", "L244")
                     /\ subject[r] = c
                     /\ status'[r] # "failed"]_vars
    /\ [](\A c \in Subjects :
            session_state.financial_analysis[c]
                # <<model_dump(PlaceholderFinancialMetrics)>>)
    /\ [](\A r \in RunIds :
            status[r] = "failed"
            => /\ \A i \in 1..Len(calls[r]) : calls[r][i].out.kind # "typed"
               /\ loc[r].final_report = <<>>
               /\ pc[r] = "end")

\* a market run that ended Done on the placeholder record: the research
\* namespace holds the researcher's record for the company, the financial
\* namespace holds nothing
C26_Witness ==
    \E r \in RunIds :
        /\ wf = "market"
        /\ status[r] = "done"
        /\ loc[r].financial_metrics = <<PlaceholderFinancialMetrics>>
        /\ IsInstance(calls[r][1].out, "MarketResearch")
        /\ session_state.market_research[subject[r]]
              = <<model_dump(calls[r][1].out.rec)>>
        /\ session_state.financial_analysis[subject[r]] = <<>>

\* the entry of step st for run r's company is present and does not
\* validate against the step's schema
InvalidEntry(r, st) ==
    /\ session_state[st.ns][subject[r]] # <<>>
    /\ model_validate(st.cls, session_state[st.ns][subject[r]][1]) = <<>>

\* C27: a step-cache entry that fails schema validation is a miss, not an
\* error.  When a market run executes step 1 or step 2 with the step's
\* use-cache flag true and an entry for the company that does not
\* validate, the step's executor is invoked once and no exception leaves
\* the run; if the executor returns an instance of the schema the entry
\* is overwritten with its dump and the instance is the record the run
\* continues with, and otherwise the entry is left as it was and the
\* step has no record.
C27_InvalidEntryIsMiss ==
    [][\A r \in RunIds : \A st \in MarketSteps :
          (Executes(r, st) /\ flags[r][st.flag] /\ InvalidEntry(r, st))
          => /\ Len(calls'[r]) = Len(calls[r]) + 1
             /\ calls'[r] = Append(calls[r], Last(calls'[r]))
             /\ Last(calls'[r]).agent = st.agent
             /\ status'[r] = "running"
             /\ IF IsInstance(Last(calls'[r]).out, st.cls)
                THEN /\ session_state'[st.ns][subject[r]]
                           = <<model_dump(Last(calls'[r]).out.rec)>>
                     /\ loc'[r][st.field] = <<Last(calls'[r]).out.rec>>
                ELSE /\ session_state' = session_state
                     /\ loc'[r][st.field] = <<>>]_vars

\* a first run on the stale session, made with use_search_cache true,
\* whose researcher returned a MarketResearch: the research entry is now
\* its dump while the financial entry is still the stale one
C27_Witness ==
    \E r \in RunIds : \E st \in MarketSteps :
        /\ wf = "market"
        /\ status[r] = "running"
        /\ pc[r] = "L185"
        /\ flags[r].use_search_cache
        /\ Len(calls[r]) = 1
        /\ IsInstance(calls[r][1].out, "MarketResearch")
        /\ session_state.market_research[subject[r]]
              = <<model_dump(calls[r][1].out.rec)>>
        /\ loc[r].market_research = <<calls[r][1].out.rec>>
        /\ st.ns = "financial_analysis"
        /\ InvalidEntry(r, st)

\* C28: in a fallback record a raw text no longer than the field's preview
\* bound is the descriptive field exactly, and the recommendations of the
\* research-report DataAnalysis fallback is the last 300 characters of a
\* raw text longer than 300 characters and the whole text otherwise.  The
\* raw text is str(response.content) of an executor result that is not an
\* instance of the schema.
C28_ShortTextKeptWhole ==
    \A r \in RunIds :
        status[r] # "idle" =>
            /\ \A pf \in PreviewFields(r) :
                  (/\ Len(calls[r]) >= pf.i
                   /\ calls[r][pf.i].out.kind \in {"text", "none"}
                   /\ Len(content_str(calls[r][pf.i].out)) <= pf.bound)
                  => pf.rec = <<[pf.rec[1] EXCEPT
                                    !.f[pf.field] = content_str(calls[r][pf.i].out)]>>
            /\ (/\ wf = "research"
                /\ Len(calls[r]) >= 2
                /\ calls[r][2].out.kind \in {"text", "none"})
               => LET s == content_str(calls[r][2].out)
                      n == Len(s)
                  IN  /\ loc[r].data_analysis # <<>>
                      /\ loc[r].data_analysis[1].f.recommendations
                            = IF n > 300 THEN [i \in 1..300 |-> s[n - 300 + i]] ELSE s

\* a research-report run whose researcher returned a text of exactly 500
\* characters and whose analyst returned one of 301 characters: the
\* key_findings is the whole first text, the recommendations is the second
\* text without its first character
C28_Witness ==
    \E r \in RunIds :
        /\ wf = "research"
        /\ status[r] = "running"
        /\ Len(calls[r]) = 2
        /\ calls[r][1].out.kind = "text"
        /\ Len(calls[r][1].out.s) = KeyFindingsPreview
        /\ loc[r].research_findings[1].f.key_findings = calls[r][1].out.s
        /\ calls[r][2].out.kind = "text"
        /\ Len(calls[r][2].out.s) = InsightsPreview + 1
        /\ loc[r].data_analysis[1].f.recommendations
              = SubSeq(calls[r][2].out.s, 2, InsightsPreview + 1)
        /\ loc[r].data_analysis[1].f.recommendations
              # Prefix(calls[r][2].out.s, InsightsPreview)

\* C29: every run of every workflow terminates.  When the consumer keeps
\* consuming, a started run reaches one of the terminal outcomes Done,
\* Failed or the cached-report short-circuit, and once a run has ended it
\* emits no further event, invokes no executor and keeps its outcome.
C29_RunTerminatesInOutcome ==
    /\ \A r \in RunIds :
          (status[r] = "running") ~> (status[r] \in {"done", "failed", "cached"})
    /\ [][\A r \in RunIds :
            (pc[r] = "end" /\ pc'[r] = "end")
            => /\ events'[r] = events[r]
               /\ calls'[r] = calls[r]
               /\ status'[r] = status[r]]_vars

====
